---- MODULE Spec2Model ----
(***************************************************************************)
(* The request/response core of the interview administration client:      *)
(* buildQuery, apiRequest, the resource clients and the count helpers of   *)
(* lib/api.ts.                                                             *)
(*                                                                         *)
(* Text is a sequence of one-character strings, so that slicing, regular   *)
(* expression tests, percent-encoding and JSON conversion are computed     *)
(* character by character as the JavaScript runtime computes them.         *)
(* A JavaScript value is a tagged record (see JsNum, JsStr, JsObj ...).    *)
(***************************************************************************)
EXTENDS Integers, Sequences, FiniteSets, TLC

(***************************************************************************)
(* Text helpers                                                            *)
(***************************************************************************)

Min(a, b) == IF a < b THEN a ELSE b

\* String.prototype.slice(0, n)
Slice0(s, n) == SubSeq(s, 1, Min(n, Len(s)))

\* s has the text p at position i (1-based)
HasAt(s, p, i) ==
  /\ i >= 1
  /\ i + Len(p) - 1 <= Len(s)
  /\ \A k \in 1..Len(p) : s[i + k - 1] = p[k]

\* String.prototype.includes
Includes(s, p) == \E i \in 1..(Len(s) + 1) : HasAt(s, p, i)

\* Array.prototype.join
RECURSIVE Join(_, _)
Join(parts, sep) ==
  IF parts = <<>> THEN <<>>
  ELSE IF Len(parts) = 1 THEN parts[1]
  ELSE parts[1] \o sep \o Join(Tail(parts), sep)

DigitChars == <<"0", "1", "2", "3", "4", "5", "6", "7", "8", "9">>

DigitSet == {DigitChars[i] : i \in 1..10}

DigitValue(c) == CHOOSE d \in 0..9 : DigitChars[d + 1] = c

\* the decimal digits of a natural number
RECURSIVE NatToText(_)
NatToText(n) ==
  IF n < 10 THEN <<DigitChars[n + 1]>>
  ELSE NatToText(n \div 10) \o <<DigitChars[(n % 10) + 1]>>

\* String(n) for an integer n
IntToText(n) == IF n < 0 THEN <<"-">> \o NatToText(-n) ELSE NatToText(n)

\* the characters matched by \s in a regular expression, within the alphabet used
WhiteSpace == {" ", "\n", "\t"}

(***************************************************************************)
(* JavaScript values                                                       *)
(***************************************************************************)

Undefined == [t |-> "undefined"]

JsNull == [t |-> "null"]

\* Number.NaN
JsNaN == [t |-> "nan"]

JsNum(n) == [t |-> "number", n |-> n]

JsStr(s) == [t |-> "string", s |-> s]

JsBool(b) == [t |-> "boolean", b |-> b]

JsArr(items) == [t |-> "array", items |-> items]

\* an object is its own enumerable properties in insertion order
JsObj(entries) == [t |-> "object", entries |-> entries]

Prop(k, v) == [k |-> k, v |-> v]

HasKey(entries, k) == \E i \in 1..Len(entries) : entries[i].k = k

KeyIndex(entries, k) == CHOOSE i \in 1..Len(entries) : entries[i].k = k

\* property lookup obj[k]: undefined when the object has no such property
Get(obj, k) ==
  IF obj.t = "object" /\ HasKey(obj.entries, k)
  THEN obj.entries[KeyIndex(obj.entries, k)].v
  ELSE Undefined

\* defining a property: an existing key keeps its position and takes the new value
SetProp(entries, k, v) ==
  IF HasKey(entries, k)
  THEN [entries EXCEPT ![KeyIndex(entries, k)] = Prop(k, v)]
  ELSE Append(entries, Prop(k, v))

\* a <= b for two texts of decimal digits of the same length
DigitsLeq(a, b) ==
  \/ a = b
  \/ \E i \in 1..Len(a) :
       /\ \A j \in 1..(i - 1) : a[j] = b[j]
       /\ DigitValue(a[i]) < DigitValue(b[i])

\* a property name that is an array index: the canonical decimal notation of an
\* integer from 0 to 2^32 - 2
IsArrayIndex(k) ==
  /\ Len(k) >= 1
  /\ Len(k) <= 10
  /\ \A i \in 1..Len(k) : k[i] \in DigitSet
  /\ (Len(k) = 1 \/ k[1] # "0")
  /\ (Len(k) < 10 \/ DigitsLeq(k, <<"4", "2", "9", "4", "9", "6", "7", "2", "9", "4">>))

\* a <= b for two array indices (canonical notations: the shorter is the smaller)
IndexLeq(a, b) == Len(a) < Len(b) \/ (Len(a) = Len(b) /\ DigitsLeq(a, b))

\* the index-named properties of a property list, in ascending numeric order
RECURSIVE SortedIndexEntries(_)
SortedIndexEntries(entries) ==
  LET idx == {i \in 1..Len(entries) : IsArrayIndex(entries[i].k)} IN
  IF idx = {} THEN <<>>
  ELSE LET m == CHOOSE i \in idx :
                  \A j \in idx : IndexLeq(entries[i].k, entries[j].k)
       IN <<entries[m]>> \o
          SortedIndexEntries([i \in 1..(Len(entries) - 1) |->
                                IF i < m THEN entries[i] ELSE entries[i + 1]])

\* the properties of a property list that are not index-named, in insertion order
RECURSIVE NamedEntries(_)
NamedEntries(entries) ==
  IF entries = <<>> THEN <<>>
  ELSE IF IsArrayIndex(Head(entries).k) THEN NamedEntries(Tail(entries))
  ELSE <<Head(entries)>> \o NamedEntries(Tail(entries))

\* Object.entries (and every own-property enumeration): index-named properties
\* first, in ascending numeric order, then the others in insertion order
ObjectEntries(entries) == SortedIndexEntries(entries) \o NamedEntries(entries)

\* defining the properties of b, in the order given, on the property list a
RECURSIVE SpreadInto(_, _)
SpreadInto(a, b) ==
  IF b = <<>> THEN a ELSE SpreadInto(SetProp(a, b[1].k, b[1].v), Tail(b))

\* object spread { ...a, ...b } on property lists
Spread(a, b) == SpreadInto(a, ObjectEntries(b))

\* String(value) for the scalar values a search mapping holds
ToText(v) ==
  CASE v.t = "string" -> v.s
    [] v.t = "number" -> IntToText(v.n)
    [] v.t = "boolean" -> IF v.b THEN <<"t", "r", "u", "e">> ELSE <<"f", "a", "l", "s", "e">>
    [] v.t = "null" -> <<"n", "u", "l", "l">>
    [] v.t = "nan" -> <<"N", "a", "N">>
    [] v.t = "undefined" -> <<"u", "n", "d", "e", "f", "i", "n", "e", "d">>

(***************************************************************************)
(* Query encoding                                                          *)
(***************************************************************************)

\* the characters encodeURIComponent leaves as they are
Unreserved ==
  {"a", "b", "c", "d", "e", "f", "g", "h", "i", "j", "k", "l", "m", "n",
  "o", "p", "q", "r", "s", "t", "u", "v", "w", "x", "y", "z", "A", "B", "C",
  "D", "E", "F", "G", "H", "I", "J", "K", "L", "M", "N", "O", "P", "Q", "R",
  "S", "T", "U", "V", "W", "X", "Y", "Z", "0", "1", "2", "3", "4", "5", "6",
  "7", "8", "9", "-", "_", ".", "!", "~", "*", "'", "(", ")"}

\* the percent-encoding of the other ASCII characters (their UTF-8 byte in hex)
PercentCode ==
  " " :> <<"%", "2", "0">> @@
  "\"" :> <<"%", "2", "2">> @@
  "#" :> <<"%", "2", "3">> @@
  "$" :> <<"%", "2", "4">> @@
  "%" :> <<"%", "2", "5">> @@
  "&" :> <<"%", "2", "6">> @@
  "+" :> <<"%", "2", "B">> @@
  "," :> <<"%", "2", "C">> @@
  "/" :> <<"%", "2", "F">> @@
  ":" :> <<"%", "3", "A">> @@
  ";" :> <<"%", "3", "B">> @@
  "<" :> <<"%", "3", "C">> @@
  "=" :> <<"%", "3", "D">> @@
  ">" :> <<"%", "3", "E">> @@
  "?" :> <<"%", "3", "F">> @@
  "@" :> <<"%", "4", "0">> @@
  "[" :> <<"%", "5", "B">> @@
  "\\" :> <<"%", "5", "C">> @@
  "]" :> <<"%", "5", "D">> @@
  "^" :> <<"%", "5", "E">> @@
  "{" :> <<"%", "7", "B">> @@
  "|" :> <<"%", "7", "C">> @@
  "}" :> <<"%", "7", "D">> @@
  "\n" :> <<"%", "0", "A">> @@
  "\t" :> <<"%", "0", "9">>

EncodeChar(c) == IF c \in Unreserved THEN <<c>> ELSE PercentCode[c]

RECURSIVE encodeURIComponent(_)
encodeURIComponent(s) ==
  IF s = <<>> THEN <<>> ELSE EncodeChar(Head(s)) \o encodeURIComponent(Tail(s))

\* one key=value pair of the query
EncodeEntry(e) ==
  encodeURIComponent(e.k) \o <<"=">> \o encodeURIComponent(ToText(e.v))

\* variant: the values are written into the query as they are
buildQuery_RawValues(search) ==
  IF search.t # "object" \/ Len(search.entries) = 0 THEN <<>>
  ELSE LET entries == ObjectEntries(search.entries) IN
       <<"?">> \o Join([i \in 1..Len(entries) |->
                         encodeURIComponent(entries[i].k) \o <<"=">> \o ToText(entries[i].v)],
                       <<"&">>)

\* variant: the pairs follow the order in which the properties were first set
buildQuery_AsInserted(search) ==
  IF search.t # "object" \/ Len(search.entries) = 0 THEN <<>>
  ELSE <<"?">> \o
       Join([i \in 1..Len(search.entries) |-> EncodeEntry(search.entries[i])], <<"&">>)

buildQuery(search) ==
  IF search.t # "object" \/ Len(search.entries) = 0 THEN <<>>
  ELSE LET entries == ObjectEntries(search.entries) IN
       <<"?">> \o Join([i \in 1..Len(entries) |-> EncodeEntry(entries[i])], <<"&">>)

(***************************************************************************)
(* JSON                                                                    *)
(***************************************************************************)

\* the characters of a string literal, escaped as JSON.stringify escapes them
RECURSIVE JsonEscape(_)
JsonEscape(s) ==
  IF s = <<>> THEN <<>>
  ELSE (CASE Head(s) = "\"" -> <<"\\", "\"">>
          [] Head(s) = "\\" -> <<"\\", "\\">>
          [] Head(s) = "\n" -> <<"\\", "n">>
          [] Head(s) = "\t" -> <<"\\", "t">>
          [] OTHER -> <<Head(s)>>) \o JsonEscape(Tail(s))

JsonQuote(s) == <<"\"">> \o JsonEscape(s) \o <<"\"">>

\* the properties JSON.stringify writes: one whose value is undefined is left out
RECURSIVE Defined(_)
Defined(entries) ==
  IF entries = <<>> THEN <<>>
  ELSE IF Head(entries).v.t = "undefined" THEN Defined(Tail(entries))
  ELSE <<Head(entries)>> \o Defined(Tail(entries))

\* JSON.stringify of a value other than undefined
RECURSIVE JSONStringify(_)
JSONStringify(v) ==
  CASE v.t = "null" -> <<"n", "u", "l", "l">>
    [] v.t = "nan" -> <<"n", "u", "l", "l">>
    [] v.t = "undefined" -> <<"n", "u", "l", "l">>
    [] v.t = "number" -> IntToText(v.n)
    [] v.t = "boolean" -> ToText(v)
    [] v.t = "string" -> JsonQuote(v.s)
    [] v.t = "array" ->
         <<"[">> \o Join([i \in 1..Len(v.items) |-> JSONStringify(v.items[i])], <<",">>)
                 \o <<"]">>
    [] v.t = "object" ->
         LET es == Defined(ObjectEntries(v.entries)) IN
         <<"{">> \o Join([i \in 1..Len(es) |->
                           JsonQuote(es[i].k) \o <<":">> \o JSONStringify(es[i].v)],
                         <<",">>)
                 \o <<"}">>

JsonWs == {" ", "\n", "\t"}

RECURSIVE SkipWs(_, _)
SkipWs(s, i) == IF i <= Len(s) /\ s[i] \in JsonWs THEN SkipWs(s, i + 1) ELSE i

ParseFail == [ok |-> FALSE, v |-> Undefined, i |-> 0]

ParseOk(v, i) == [ok |-> TRUE, v |-> v, i |-> i]

\* the rest of a string literal whose opening quote precedes position i
RECURSIVE ParseString(_, _, _)
ParseString(s, i, acc) ==
  IF i > Len(s) THEN ParseFail
  ELSE IF s[i] = "\"" THEN ParseOk(JsStr(acc), i + 1)
  ELSE IF s[i] = "\\" THEN
    IF i + 1 > Len(s) THEN ParseFail
    ELSE IF s[i + 1] \in {"\"", "\\", "/"} THEN ParseString(s, i + 2, Append(acc, s[i + 1]))
    ELSE IF s[i + 1] = "n" THEN ParseString(s, i + 2, Append(acc, "\n"))
    ELSE IF s[i + 1] = "t" THEN ParseString(s, i + 2, Append(acc, "\t"))
    ELSE ParseFail
  ELSE IF s[i] \in {"\n", "\t"} THEN ParseFail
  ELSE ParseString(s, i + 1, Append(acc, s[i]))

\* the digits from position i on: their value and the position after them
RECURSIVE ParseDigits(_, _, _)
ParseDigits(s, i, acc) ==
  IF i <= Len(s) /\ s[i] \in DigitSet
  THEN ParseDigits(s, i + 1, acc * 10 + DigitValue(s[i]))
  ELSE [n |-> acc, i |-> i]

\* an integer literal: -? (0 | [1-9][0-9]*); fractions and exponents are not in
\* the texts of this model
ParseNumber(s, i) ==
  LET neg == i <= Len(s) /\ s[i] = "-"
      j == IF neg THEN i + 1 ELSE i
      d == ParseDigits(s, j, 0)
  IN IF d.i = j THEN ParseFail
     ELSE IF s[j] = "0" /\ d.i > j + 1 THEN ParseFail
     ELSE ParseOk(JsNum(IF neg THEN -d.n ELSE d.n), d.i)

RECURSIVE ParseValue(_, _)
RECURSIVE ParseElements(_, _, _)
RECURSIVE ParseMembers(_, _, _)

\* the elements of an array, a value being expected at position i
ParseElements(s, i, acc) ==
  LET r == ParseValue(s, i)
      j == SkipWs(s, r.i)
  IN IF ~r.ok \/ j > Len(s) THEN ParseFail
     ELSE IF s[j] = "," THEN ParseElements(s, j + 1, Append(acc, r.v))
     ELSE IF s[j] = "]" THEN ParseOk(JsArr(Append(acc, r.v)), j + 1)
     ELSE ParseFail

\* the members of an object, a key being expected at position i; a repeated key
\* takes the last value
ParseMembers(s, i, acc) ==
  LET j == SkipWs(s, i) IN
  IF j > Len(s) \/ s[j] # "\"" THEN ParseFail
  ELSE
    LET key == ParseString(s, j + 1, <<>>)
        c == SkipWs(s, key.i)
    IN IF ~key.ok \/ c > Len(s) \/ s[c] # ":" THEN ParseFail
       ELSE
         LET r == ParseValue(s, c + 1)
             e == SkipWs(s, r.i)
         IN IF ~r.ok \/ e > Len(s) THEN ParseFail
            ELSE IF s[e] = "," THEN ParseMembers(s, e + 1, SetProp(acc, key.v.s, r.v))
            ELSE IF s[e] = "}" THEN ParseOk(JsObj(SetProp(acc, key.v.s, r.v)), e + 1)
            ELSE ParseFail

ParseValue(s, i) ==
  LET j == SkipWs(s, i) IN
  IF j > Len(s) THEN ParseFail
  ELSE IF s[j] = "{" THEN
    (LET k == SkipWs(s, j + 1) IN
     IF k <= Len(s) /\ s[k] = "}" THEN ParseOk(JsObj(<<>>), k + 1)
     ELSE ParseMembers(s, j + 1, <<>>))
  ELSE IF s[j] = "[" THEN
    (LET k == SkipWs(s, j + 1) IN
     IF k <= Len(s) /\ s[k] = "]" THEN ParseOk(JsArr(<<>>), k + 1)
     ELSE ParseElements(s, j + 1, <<>>))
  ELSE IF s[j] = "\"" THEN ParseString(s, j + 1, <<>>)
  ELSE IF HasAt(s, <<"n", "u", "l", "l">>, j) THEN ParseOk(JsNull, j + 4)
  ELSE IF HasAt(s, <<"t", "r", "u", "e">>, j) THEN ParseOk(JsBool(TRUE), j + 4)
  ELSE IF HasAt(s, <<"f", "a", "l", "s", "e">>, j) THEN ParseOk(JsBool(FALSE), j + 5)
  ELSE ParseNumber(s, j)

\* JSON.parse: the value of the whole text, or a SyntaxError (ok = FALSE)
JSONParse(text) ==
  LET r == ParseValue(text, 1) IN
  IF r.ok /\ SkipWs(text, r.i) > Len(text)
  THEN [ok |-> TRUE, v |-> r.v]
  ELSE [ok |-> FALSE, v |-> Undefined]

\* Number.parseInt(text, 10): leading white space, a sign, then the longest run
\* of digits; NaN when there is no digit
parseInt10(text) ==
  LET RECURSIVE Skip(_)
      Skip(i) == IF i <= Len(text) /\ text[i] \in WhiteSpace THEN Skip(i + 1) ELSE i
      a == Skip(1)
      signed == a <= Len(text) /\ text[a] \in {"-", "+"}
      j == IF signed THEN a + 1 ELSE a
      d == ParseDigits(text, j, 0)
  IN IF d.i = j THEN JsNaN
     ELSE JsNum(IF signed /\ text[a] = "-" THEN -d.n ELSE d.n)

(***************************************************************************)
(* Configuration: the values lib/api.ts imports from ../config.  The       *)
(* module config.ts is not part of the source tree; the values are those   *)
(* of the sample client docs/samples/api/app.js.                           *)
(***************************************************************************)

API_BASE == <<"h", "t", "t", "p", "s", ":", "/", "/", "c", "o", "m", "p", "2", "1", "4", "0", "a", "2", ".", "u", "q", "c", "l", "o", "u", "d", ".", "n", "e", "t", "/", "a", "p", "i">>

JWT == <<"Y", "O", "U", "R", " ", "T", "O", "K", "E", "N", " ", "H", "E", "R", "E">>

USERNAME == <<"s", "1", "0", "0", "0", "0", "0", "0">>

(***************************************************************************)
(* apiRequest                                                              *)
(***************************************************************************)

JSON_METHODS == {"POST", "PATCH"}

ERROR_SNIPPET_LENGTH == 200

K_username == <<"u", "s", "e", "r", "n", "a", "m", "e">>

isRecord(value) == value.t = "object"

\* an ApiRequestInit; method "undefined" stands for an init without method
ApiInit(method, search, body) == [method |-> method, search |-> search, body |-> body]

\* const method = init.method ?? 'GET'
MethodOf(init) == IF init.method = "undefined" THEN "GET" ELSE init.method

UrlOf(path, init) == API_BASE \o path \o buildQuery(init.search)

\* variant: the representation preference is sent with every method
HeadersOf_AlwaysPrefer(method) ==
  << Prop("Authorization", <<"B", "e", "a", "r", "e", "r", " ">> \o JWT),
     Prop("Content-Type", <<"a", "p", "p", "l", "i", "c", "a", "t", "i", "o", "n", "/", "j", "s", "o", "n">>),
     Prop("Prefer", <<"r", "e", "t", "u", "r", "n", "=", "r", "e", "p", "r", "e", "s", "e", "n", "t", "a", "t", "i", "o", "n">>) >>

HeadersOf(method) ==
  LET headers == << Prop("Authorization", <<"B", "e", "a", "r", "e", "r", " ">> \o JWT),
                    Prop("Content-Type", <<"a", "p", "p", "l", "i", "c", "a", "t", "i", "o", "n", "/", "j", "s", "o", "n">>) >>
  IN IF method \in JSON_METHODS
     THEN SetProp(headers, "Prefer", <<"r", "e", "t", "u", "r", "n", "=", "r", "e", "p", "r", "e", "s", "e", "n", "t", "a", "t", "i", "o", "n">>)
     ELSE headers

\* variant: the identity is merged into POST bodies only
BodyToSend_PostOnly(method, body) ==
  IF method = "POST" /\ isRecord(body)
  THEN JsObj(Spread(<<Prop(K_username, JsStr(USERNAME))>>, body.entries))
  ELSE body

\* variant: { ...bodyToSend, username: USERNAME }, the configured identity last
BodyToSend_IdentityLast(method, body) ==
  IF method \in JSON_METHODS /\ isRecord(body)
  THEN JsObj(Spread(body.entries, <<Prop(K_username, JsStr(USERNAME))>>))
  ELSE body

\* bodyToSend after the identity merge { username: USERNAME, ...bodyToSend }
BodyToSend(method, body) ==
  IF method \in JSON_METHODS /\ isRecord(body)
  THEN JsObj(Spread(<<Prop(K_username, JsStr(USERNAME))>>, body.entries))
  ELSE body

\* variant: the identity is assigned on the caller's object itself
CallerBodyAfter_Assigned(method, body) ==
  IF method \in JSON_METHODS /\ isRecord(body)
  THEN JsObj(Spread(<<Prop(K_username, JsStr(USERNAME))>>, body.entries))
  ELSE body

\* the object the caller passed as init.body, once apiRequest has run its
\* synchronous part: no statement assigns to it or to a property of it, the
\* merge builds a new object literal
CallerBodyAfter(method, body) == body

\* fetchInit.body: undefined when no body is set, the wire text otherwise
FetchBody(bodyToSend) ==
  IF bodyToSend.t = "undefined" THEN Undefined
  ELSE IF isRecord(bodyToSend) \/ bodyToSend.t = "array" THEN JsStr(JSONStringify(bodyToSend))
  ELSE IF bodyToSend.t = "string" THEN bodyToSend
  ELSE JsStr(JSONStringify(bodyToSend))

\* the arguments of the fetch call of apiRequest(path, init)
FetchCall(path, init) ==
  [ url |-> UrlOf(path, init),
    method |-> MethodOf(init),
    headers |-> HeadersOf(MethodOf(init)),
    body |-> FetchBody(BodyToSend(MethodOf(init), init.body)) ]

Pending == [kind |-> "pending"]

Resolved(value) == [kind |-> "resolved", value |-> value]

Rejected(error) == [kind |-> "rejected", error |-> error]

JsError(name, message) == [name |-> name, message |-> message]

\* response.ok as fetch sets it
ResponseOk(response) == response.status >= 200 /\ response.status <= 299

\* response.headers?.get?.('content-type') ?? ''
ContentTypeOf(response) ==
  IF response.contentType.t = "string" THEN response.contentType.s ELSE <<>>

FailureMessage(status, rawText) ==
  <<"R", "e", "q", "u", "e", "s", "t", " ", "f", "a", "i", "l", "e", "d", " ", "w", "i", "t", "h", " ", "s", "t", "a", "t", "u", "s", " ">> \o IntToText(status) \o <<":", " ">>
    \o Slice0(rawText, ERROR_SNIPPET_LENGTH)

\* variant: the empty-body test comes before the status test
ApiResponse_EmptyFirst(response) ==
  LET rawText == response.text IN
  IF rawText = <<>>
  THEN [outcome |-> Resolved(JsNull), jsonParsed |-> FALSE]
  ELSE IF ~ResponseOk(response)
  THEN [ outcome |-> Rejected(JsError("Error", FailureMessage(response.status, rawText))),
         jsonParsed |-> FALSE ]
  ELSE IF Includes(ContentTypeOf(response), <<"a", "p", "p", "l", "i", "c", "a", "t", "i", "o", "n", "/", "j", "s", "o", "n">>)
  THEN LET parsed == JSONParse(rawText) IN
       [ outcome |-> IF parsed.ok THEN Resolved(parsed.v)
                     ELSE Rejected(JsError("SyntaxError", <<"U", "n", "e", "x", "p", "e", "c", "t", "e", "d", " ", "t", "o", "k", "e", "n", " ", "i", "n", " ", "J", "S", "O", "N">>)),
         jsonParsed |-> TRUE ]
  ELSE [outcome |-> Resolved(JsStr(rawText)), jsonParsed |-> FALSE]

\* variant: a successful body is parsed as JSON whatever the content type
ApiResponse_AlwaysJson(response) ==
  LET rawText == response.text IN
  IF ~ResponseOk(response)
  THEN [ outcome |-> Rejected(JsError("Error", FailureMessage(response.status, rawText))),
         jsonParsed |-> FALSE ]
  ELSE IF rawText = <<>>
  THEN [outcome |-> Resolved(JsNull), jsonParsed |-> FALSE]
  ELSE LET parsed == JSONParse(rawText) IN
       [ outcome |-> IF parsed.ok THEN Resolved(parsed.v)
                     ELSE Rejected(JsError("SyntaxError", <<"U", "n", "e", "x", "p", "e", "c", "t", "e", "d", " ", "t", "o", "k", "e", "n", " ", "i", "n", " ", "J", "S", "O", "N">>)),
         jsonParsed |-> TRUE ]

\* what apiRequest does with a response: its outcome, and whether JSON.parse ran
ApiResponse(response) ==
  LET rawText == response.text IN
  IF ~ResponseOk(response)
  THEN [ outcome |-> Rejected(JsError("Error", FailureMessage(response.status, rawText))),
         jsonParsed |-> FALSE ]
  ELSE IF rawText = <<>>
  THEN [outcome |-> Resolved(JsNull), jsonParsed |-> FALSE]
  ELSE IF Includes(ContentTypeOf(response), <<"a", "p", "p", "l", "i", "c", "a", "t", "i", "o", "n", "/", "j", "s", "o", "n">>)
  THEN LET parsed == JSONParse(rawText) IN
       [ outcome |-> IF parsed.ok THEN Resolved(parsed.v)
                     ELSE Rejected(JsError("SyntaxError", <<"U", "n", "e", "x", "p", "e", "c", "t", "e", "d", " ", "t", "o", "k", "e", "n", " ", "i", "n", " ", "J", "S", "O", "N">>)),
         jsonParsed |-> TRUE ]
  ELSE [outcome |-> Resolved(JsStr(rawText)), jsonParsed |-> FALSE]

(***************************************************************************)
(* Resource clients                                                        *)
(***************************************************************************)

P_interview == <<"/", "i", "n", "t", "e", "r", "v", "i", "e", "w">>

P_question == <<"/", "q", "u", "e", "s", "t", "i", "o", "n">>

P_applicant == <<"/", "a", "p", "p", "l", "i", "c", "a", "n", "t">>

P_applicant_answer == <<"/", "a", "p", "p", "l", "i", "c", "a", "n", "t", "_", "a", "n", "s", "w", "e", "r">>

\* { id: `eq.${id}` }
IdFilter(id) == JsObj(<<Prop(<<"i", "d">>, JsStr(<<"e", "q", ".">> \o IntToText(id)))>>)

ApiCall(path, init) == [path |-> path, init |-> init]

ListCall(path, search) == ApiCall(path, ApiInit("undefined", search, Undefined))

CreateCall(path, data) == ApiCall(path, ApiInit("POST", Undefined, data))

UpdateCall(path, id, patch) == ApiCall(path, ApiInit("PATCH", IdFilter(id), patch))

\* variant: the delete request carries no id filter
DeleteCall_Unscoped(path, id) == ApiCall(path, ApiInit("DELETE", Undefined, Undefined))

DeleteCall(path, id) == ApiCall(path, ApiInit("DELETE", IdFilter(id), Undefined))

listInterviews(search) == ListCall(P_interview, search)

createInterview(data) == CreateCall(P_interview, data)

updateInterview(id, patch) == UpdateCall(P_interview, id, patch)

deleteInterview(id) == DeleteCall(P_interview, id)

listQuestions(search) == ListCall(P_question, search)

createQuestion(data) == CreateCall(P_question, data)

updateQuestion(id, patch) == UpdateCall(P_question, id, patch)

deleteQuestion(id) == DeleteCall(P_question, id)

listApplicants(search) == ListCall(P_applicant, search)

createApplicant(data) == CreateCall(P_applicant, data)

updateApplicant(id, patch) == UpdateCall(P_applicant, id, patch)

deleteApplicant(id) == DeleteCall(P_applicant, id)

listApplicantAnswers(search) == ListCall(P_applicant_answer, search)

createApplicantAnswer(data) == CreateCall(P_applicant_answer, data)

updateApplicantAnswer(id, patch) == UpdateCall(P_applicant_answer, id, patch)

deleteApplicantAnswer(id) == DeleteCall(P_applicant_answer, id)

(***************************************************************************)
(* Count helpers                                                           *)
(***************************************************************************)

\* variant: the count projection replaces the caller's filter
fetchCount_NoFilter(path, search) ==
  ApiCall(path, ApiInit("undefined", JsObj(<<Prop(<<"s", "e", "l", "e", "c", "t">>, JsStr(<<"c", "o", "u", "n", "t">>))>>), Undefined))

\* the apiRequest call of fetchCount: search { ...search, select: 'count' }
fetchCount(path, search) ==
  ApiCall(path, ApiInit("undefined",
                        JsObj(Spread(search.entries, <<Prop(<<"s", "e", "l", "e", "c", "t">>, JsStr(<<"c", "o", "u", "n", "t">>))>>)),
                        Undefined))

\* { interview_id: `eq.${interviewId}` }
InterviewFilter(interviewId) ==
  JsObj(<<Prop(<<"i", "n", "t", "e", "r", "v", "i", "e", "w", "_", "i", "d">>, JsStr(<<"e", "q", ".">> \o IntToText(interviewId)))>>)

countQuestionsForInterview(interviewId) == fetchCount(P_question, InterviewFilter(interviewId))

countApplicantsForInterview(interviewId) == fetchCount(P_applicant, InterviewFilter(interviewId))

\* /status\s+404/.test(message)
MatchesStatus404(message) ==
  \E i \in 1..Len(message) :
    /\ HasAt(message, <<"s", "t", "a", "t", "u", "s">>, i)
    /\ \E j \in (i + 7)..Len(message) :
         /\ \A k \in (i + 6)..(j - 1) : message[k] \in WhiteSpace
         /\ HasAt(message, <<"4", "0", "4">>, j)

\* rows[0]
IndexZero(rows) ==
  CASE rows.t = "array" -> IF Len(rows.items) > 0 THEN rows.items[1] ELSE Undefined
    [] rows.t = "string" -> IF Len(rows.s) > 0 THEN JsStr(<<rows.s[1]>>) ELSE Undefined
    [] rows.t = "object" -> Get(rows, <<"0">>)
    [] OTHER -> Undefined

\* variant: the catch block rethrows every error
CountCatch_Rethrow(error) == Rejected(error)

\* the catch block of fetchCount
CountCatch(error) ==
  IF MatchesStatus404(error.message) THEN Resolved(JsNum(0)) ELSE Rejected(error)

\* the try block of fetchCount after apiRequest has resolved to rows
CountOfRows(rows) ==
  IF rows.t \in {"null", "undefined"}
  THEN CountCatch(JsError("TypeError", <<"C", "a", "n", "n", "o", "t", " ", "r", "e", "a", "d", " ", "p", "r", "o", "p", "e", "r", "t", "i", "e", "s", " ", "o", "f", " ", "n", "u", "l", "l", " ", "(", "r", "e", "a", "d", "i", "n", "g", " ", "'", "0", "'", ")">>))
  ELSE LET first == Get(IndexZero(rows), <<"c", "o", "u", "n", "t">>) IN
       IF first.t = "string"
       THEN (LET parsed == parseInt10(first.s) IN
             Resolved(IF parsed.t = "nan" THEN JsNum(0) ELSE parsed))
       ELSE IF first.t = "number" THEN Resolved(first)
       ELSE Resolved(JsNum(0))

\* what fetchCount settles to, given what its apiRequest call settled to
CountResult(apiOutcome) ==
  IF apiOutcome.kind = "resolved"
  THEN CountOfRows(apiOutcome.value)
  ELSE CountCatch(apiOutcome.error)

(***************************************************************************)
(* Inputs: the arguments callers pass and the responses the backend gives  *)
(***************************************************************************)

\* identifiers range over 1..MaxId
MaxId == 2

\* failed bodies are up to MaxOver characters longer than the error snippet
MaxOver == 1

Ids == 1..MaxId

R_plain == JsObj(<<Prop(<<"t", "i", "t", "l", "e">>, JsStr(<<"D", "e", "v", " ", "\"", "A", "\"">>)), Prop(<<"s", "t", "a", "t", "u", "s">>, JsStr(<<"D", "r", "a", "f", "t">>))>>)

R_named == JsObj(Append(R_plain.entries, Prop(K_username, JsStr(<<"c", "u", "s", "t", "o", "m", "-", "u", "s", "e", "r">>))))

R_null == JsObj(Append(R_plain.entries, Prop(K_username, JsNull)))

R_undefined == JsObj(Append(R_plain.entries, Prop(K_username, Undefined)))

R_gap == JsObj(<<Prop(<<"t", "i", "t", "l", "e">>, JsStr(<<"D", "e", "v">>)), Prop(<<"d", "e", "s", "c", "r", "i", "p", "t", "i", "o", "n">>, Undefined)>>)

R_empty == JsObj(<<>>)

Records == {R_plain, R_named, R_null, R_undefined, R_gap, R_empty}

Patches == {R_plain, R_named, R_gap}

Bodies ==
  Records \cup { JsArr(<<R_plain>>), JsStr(<<"{", "\"", "t", "i", "t", "l", "e", "\"", ":", "\"", "D", "e", "v", "\"", "}">>), JsNum(7), JsNull, Undefined }

S_paging ==
  JsObj(<<Prop(<<"o", "r", "d", "e", "r">>, JsStr(<<"i", "d", ".", "d", "e", "s", "c">>)), Prop(<<"l", "i", "m", "i", "t">>, JsNum(10)), Prop(<<"o", "f", "f", "s", "e", "t">>, JsNum(0))>>)

S_pattern == JsObj(<<Prop(<<"t", "i", "t", "l", "e">>, JsStr(<<"i", "l", "i", "k", "e", ".", "*", "a", " ", "b", "*">>))>>)

Searches == {Undefined, JsObj(<<>>), S_paging, S_pattern}

Methods == {"undefined", "GET", "POST", "PATCH", "DELETE"}

ListFns == {"listInterviews", "listQuestions", "listApplicants", "listApplicantAnswers"}

CreateFns == {"createInterview", "createQuestion", "createApplicant", "createApplicantAnswer"}

UpdateFns == {"updateInterview", "updateQuestion", "updateApplicant", "updateApplicantAnswer"}

DeleteFns == {"deleteInterview", "deleteQuestion", "deleteApplicant", "deleteApplicantAnswer"}

CountFns == {"countQuestionsForInterview", "countApplicantsForInterview"}

ListOf(fn, search) ==
  CASE fn = "listInterviews" -> listInterviews(search)
    [] fn = "listQuestions" -> listQuestions(search)
    [] fn = "listApplicants" -> listApplicants(search)
    [] fn = "listApplicantAnswers" -> listApplicantAnswers(search)

CreateOf(fn, data) ==
  CASE fn = "createInterview" -> createInterview(data)
    [] fn = "createQuestion" -> createQuestion(data)
    [] fn = "createApplicant" -> createApplicant(data)
    [] fn = "createApplicantAnswer" -> createApplicantAnswer(data)

UpdateOf(fn, id, patch) ==
  CASE fn = "updateInterview" -> updateInterview(id, patch)
    [] fn = "updateQuestion" -> updateQuestion(id, patch)
    [] fn = "updateApplicant" -> updateApplicant(id, patch)
    [] fn = "updateApplicantAnswer" -> updateApplicantAnswer(id, patch)

DeleteOf(fn, id) ==
  CASE fn = "deleteInterview" -> deleteInterview(id)
    [] fn = "deleteQuestion" -> deleteQuestion(id)
    [] fn = "deleteApplicant" -> deleteApplicant(id)
    [] fn = "deleteApplicantAnswer" -> deleteApplicantAnswer(id)

CountOf(fn, interviewId) ==
  CASE fn = "countQuestionsForInterview" -> countQuestionsForInterview(interviewId)
    [] fn = "countApplicantsForInterview" -> countApplicantsForInterview(interviewId)

\* a body of n characters whose character at each position tells the position
LongText(n) == [i \in 1..n |-> <<"a", "b", "c", "d", "e", "f", "g">>[(i % 7) + 1]]

T_noRows == <<"{", "\"", "c", "o", "d", "e", "\"", ":", "\"", "P", "G", "R", "S", "T", "3", "0", "2", "\"", ",", "\"", "m", "e", "s", "s", "a", "g", "e", "\"", ":", "\"", "R", "e", "s", "u", "l", "t", "s", " ", "c", "o", "n", "t", "a", "i", "n", " ", "0", " ", "r", "o", "w", "s", "\"", "}">>

T_notFound == <<"{", "\"", "m", "e", "s", "s", "a", "g", "e", "\"", ":", "\"", "N", "o", "t", " ", "F", "o", "u", "n", "d", "\"", "}">>

T_mentions404 == <<"u", "p", "s", "t", "r", "e", "a", "m", " ", "s", "t", "a", "t", "u", "s", " ", "4", "0", "4">>

T_html == <<"<", "!", "D", "O", "C", "T", "Y", "P", "E", " ", "h", "t", "m", "l", ">">>

T_count3 == <<"[", "{", "\"", "c", "o", "u", "n", "t", "\"", ":", "3", "}", "]">>

T_count12 == <<"[", "{", "\"", "c", "o", "u", "n", "t", "\"", ":", "\"", "1", "2", "\"", "}", "]">>

T_countAbc == <<"[", "{", "\"", "c", "o", "u", "n", "t", "\"", ":", "\"", "a", "b", "c", "\"", "}", "]">>

T_rows == <<"[", "{", "\"", "i", "d", "\"", ":", "1", ",", "\"", "t", "i", "t", "l", "e", "\"", ":", "\"", "D", "e", "v", "\"", "}", "]">>

Texts ==
  { <<>>, <<"[", "]">>, <<"[", "{", "}", "]">>, <<"n", "u", "l", "l">>, T_count3, T_count12, T_countAbc, T_rows,
    T_noRows, T_notFound, T_mentions404, T_html }
  \cup { LongText(ERROR_SNIPPET_LENGTH + d) : d \in -1..MaxOver }

Statuses == {200, 201, 400, 404, 500}

CT_json == <<"a", "p", "p", "l", "i", "c", "a", "t", "i", "o", "n", "/", "j", "s", "o", "n">>

\* the content-type header of a response; null when the response has none
ContentTypes ==
  { JsNull, JsStr(CT_json), JsStr(<<"a", "p", "p", "l", "i", "c", "a", "t", "i", "o", "n", "/", "j", "s", "o", "n", ";", " ", "c", "h", "a", "r", "s", "e", "t", "=", "u", "t", "f", "-", "8">>),
    JsStr(<<"a", "p", "p", "l", "i", "c", "a", "t", "i", "o", "n", "/", "j", "s", "o", "n", "-", "s", "e", "q">>), JsStr(<<"t", "e", "x", "t", "/", "p", "l", "a", "i", "n">>) }

HttpResponse(status, contentType, text) ==
  [status |-> status, contentType |-> contentType, text |-> text]

\* what fetch rejects with when no response arrives
NetworkErrors == { JsError("TypeError", <<"F", "a", "i", "l", "e", "d", " ", "t", "o", " ", "f", "e", "t", "c", "h">>) }

(***************************************************************************)
(* State: one client call at a time, from its invocation to its settling   *)
(***************************************************************************)

VARIABLES
  pc,          \* "idle", "inflight" (fetch issued, awaiting the response), "settled"
  call,        \* the client function invoked and its arguments
  fetchLog,    \* the fetch calls the invocation has made, in order
  response,    \* what the fetch settled with
  apiOutcome,  \* what the apiRequest call settled to
  outcome,     \* what the client function's promise settled to
  jsonParsed   \* whether JSON.parse ran on the response body

VARIABLES
  searchArg,   \* the search mapping a caller is building (undefined: none yet)
  queryOut     \* what buildQuery returned for it

VARIABLES
  flights,     \* the client calls made side by side: for each, its position and result
  network      \* the fetch calls issued, in order, each with the reply it got

VARIABLES
  ui,          \* the state of the Interviews page (its useState values)
  tasks        \* the asynchronous handlers of the page that are running

VARIABLES
  gw           \* the summarization gateway: the request it handles and how far it got

VARIABLES
  qui,         \* the state of the Questions page (its useState values)
  requests,    \* the client calls the Questions page has made, in the order of their issue
  built        \* buildQuestionSearchParams called on its own: its options and its result

\* the variables of one client call
coreVars == <<pc, call, fetchLog, response, apiOutcome, outcome, jsonParsed>>

\* the variables of the construction of a query
queryVars == <<searchArg, queryOut>>

\* the variables of the calls made side by side
flightVars == <<flights, network>>

\* the variables of the Interviews page
pageVars == <<ui, tasks>>

\* the variables of the summarization gateway
gatewayVars == <<gw>>

\* the variables of the Questions page
questionVars == <<qui, requests, built>>

vars == <<coreVars, queryVars, flightVars, pageVars, gatewayVars, questionVars>>

\* what the steps of a client call leave alone
outsideCore == <<queryVars, flightVars, pageVars, gatewayVars, questionVars>>

\* what the construction of a query leaves alone
outsideQuery == <<coreVars, flightVars, pageVars, gatewayVars, questionVars>>

\* what the calls made side by side leave alone
outsideFlights == <<coreVars, queryVars, pageVars, gatewayVars, questionVars>>

\* what the Interviews page leaves alone
outsidePage == <<coreVars, queryVars, flightVars, gatewayVars, questionVars>>

\* what the summarization gateway leaves alone
outsideGateway == <<coreVars, queryVars, flightVars, pageVars, questionVars>>

\* what the Questions page leaves alone
outsideQuestions == <<coreVars, queryVars, flightVars, pageVars, gatewayVars>>

NotBuilt == [built |-> FALSE]

Built(text) == [built |-> TRUE, text |-> text]

QueryAtRest ==
  /\ searchArg = Undefined
  /\ queryOut = NotBuilt

NoCall == [fn |-> "none", id |-> 0, arg |-> Undefined, path |-> <<>>,
           init |-> ApiInit("undefined", Undefined, Undefined)]

NoResponse == [kind |-> "none"]

Invocation(fn, id, arg, c) == [fn |-> fn, id |-> id, arg |-> arg, path |-> c.path, init |-> c.init]

\* at most MaxFlights client calls are made side by side
MaxFlights == 2

Flights == 1..MaxFlights

NoFlight == [pc |-> "idle", call |-> NoCall, fetchIx |-> 0, apiOutcome |-> Pending, outcome |-> Pending]

FlightsAtRest ==
  /\ flights = [f \in Flights |-> NoFlight]
  /\ network = <<>>

\* at most MaxTasks asynchronous handlers of the page run at a time
MaxTasks == 3

Tasks == 1..MaxTasks

\* the page before it is mounted
Unmounted == [mounted |-> FALSE]

NoTask == [kind |-> "none"]

PageAtRest ==
  /\ ui = Unmounted
  /\ tasks = [t \in Tasks |-> NoTask]

\* the gateway between two requests
GatewayIdle == [state |-> "Idle"]

GatewayAtRest == gw = GatewayIdle

QuestionsAtRest ==
  /\ qui = Unmounted
  /\ requests = <<>>
  /\ built = NotBuilt

CoreAtRest ==
  /\ pc = "idle"
  /\ call = NoCall
  /\ fetchLog = <<>>
  /\ response = NoResponse
  /\ apiOutcome = Pending
  /\ outcome = Pending
  /\ jsonParsed = FALSE

Init ==
  /\ CoreAtRest
  /\ QueryAtRest
  /\ FlightsAtRest
  /\ PageAtRest
  /\ GatewayAtRest
  /\ QuestionsAtRest

\* the synchronous part of apiRequest, up to the fetch call
Start(inv) ==
  /\ pc' = "inflight"
  /\ call' = [inv EXCEPT !.arg = IF inv.init.body.t = "undefined" THEN @
                                  ELSE CallerBodyAfter(MethodOf(inv.init), inv.init.body)]
  /\ fetchLog' = Append(fetchLog, FetchCall(inv.path, inv.init))
  /\ UNCHANGED <<response, apiOutcome, outcome, jsonParsed>>
  /\ UNCHANGED outsideCore

\* a direct call apiRequest(path, init)
ApiRequest(path, init) ==
  /\ pc = "idle"
  /\ Start(Invocation("apiRequest", 0, init.body, ApiCall(path, init)))

List(fn, search) ==
  /\ pc = "idle"
  /\ Start(Invocation(fn, 0, search, ListOf(fn, search)))

Create(fn, data) ==
  /\ pc = "idle"
  /\ Start(Invocation(fn, 0, data, CreateOf(fn, data)))

Update(fn, id, patch) ==
  /\ pc = "idle"
  /\ Start(Invocation(fn, id, patch, UpdateOf(fn, id, patch)))

Delete(fn, id) ==
  /\ pc = "idle"
  /\ Start(Invocation(fn, id, Undefined, DeleteOf(fn, id)))

Count(fn, interviewId) ==
  /\ pc = "idle"
  /\ Start(Invocation(fn, interviewId, Undefined, CountOf(fn, interviewId)))

\* the client function's promise: fetchCount post-processes what apiRequest gave
ClientOutcome(fn, apiOut) == IF fn \in CountFns THEN CountResult(apiOut) ELSE apiOut

\* variant: a failed response is retried once
FetchResolves_Retry(r) ==
  /\ pc = "inflight"
  /\ IF ~ResponseOk(r) /\ Len(fetchLog) < 2
     THEN /\ fetchLog' = Append(fetchLog, FetchCall(call.path, call.init))
          /\ UNCHANGED <<pc, call, response, apiOutcome, outcome, jsonParsed>>
     ELSE /\ pc' = "settled"
          /\ response' = [kind |-> "http", status |-> r.status, contentType |-> r.contentType,
                          text |-> r.text]
          /\ apiOutcome' = ApiResponse(r).outcome
          /\ jsonParsed' = ApiResponse(r).jsonParsed
          /\ outcome' = ClientOutcome(call.fn, ApiResponse(r).outcome)
          /\ UNCHANGED <<call, fetchLog>>
  /\ UNCHANGED outsideCore

\* the fetch resolves with a response: the rest of apiRequest and of its caller
FetchResolves(r) ==
  /\ pc = "inflight"
  /\ pc' = "settled"
  /\ response' = [kind |-> "http", status |-> r.status, contentType |-> r.contentType,
                  text |-> r.text]
  /\ apiOutcome' = ApiResponse(r).outcome
  /\ jsonParsed' = ApiResponse(r).jsonParsed
  /\ outcome' = ClientOutcome(call.fn, ApiResponse(r).outcome)
  /\ UNCHANGED <<call, fetchLog>>
  /\ UNCHANGED outsideCore

\* the fetch (or the reading of the body) rejects: apiRequest rejects with the
\* same error
FetchRejects(e) ==
  /\ pc = "inflight"
  /\ pc' = "settled"
  /\ response' = [kind |-> "network", error |-> e]
  /\ apiOutcome' = Rejected(e)
  /\ jsonParsed' = FALSE
  /\ outcome' = ClientOutcome(call.fn, Rejected(e))
  /\ UNCHANGED <<call, fetchLog>>
  /\ UNCHANGED outsideCore

\* the caller has taken the result; the next call starts afresh
Return ==
  /\ pc = "settled"
  /\ pc' = "idle"
  /\ call' = NoCall
  /\ fetchLog' = <<>>
  /\ response' = NoResponse
  /\ apiOutcome' = Pending
  /\ outcome' = Pending
  /\ jsonParsed' = FALSE
  /\ UNCHANGED outsideCore

Next ==
  \/ \E fn \in ListFns, s \in Searches : List(fn, s)
  \/ \E fn \in CreateFns, d \in Records : Create(fn, d)
  \/ \E fn \in UpdateFns, id \in Ids, p \in Patches : Update(fn, id, p)
  \/ \E fn \in DeleteFns, id \in Ids : Delete(fn, id)
  \/ \E fn \in CountFns, id \in Ids : Count(fn, id)
  \/ \E m \in Methods, s \in {Undefined, S_paging}, b \in Bodies :
       ApiRequest(P_interview, ApiInit(m, s, b))
  \/ \E x \in Texts, c \in ContentTypes, s \in Statuses : FetchResolves(HttpResponse(s, c, x))
  \/ \E e \in NetworkErrors : FetchRejects(e)
  \/ Return

Spec == Init /\ [][Next]_vars

(***************************************************************************)
(* Query construction: a caller builds a search mapping, property by       *)
(* property, and buildQuery encodes it                                     *)
(***************************************************************************)

\* a search mapping holds at most MaxParams parameters
MaxParams == 2

ParamNames == { <<"o", "r", "d", "e", "r">>, <<"l", "i", "m", "i", "t">>, <<"a", "&", "b", " ", "c">>, <<"1", "0">>, <<"2">> }

ParamValues ==
  { JsStr(<<"i", "d", ".", "d", "e", "s", "c">>), JsStr(<<"i", "l", "i", "k", "e", ".", "*", "a", " ", "b", "*">>), JsStr(<<"a", "+", "b", "&", "c", "=", "d">>), JsStr(<<"1", "0", "0", "%">>), JsStr(<<>>),
    JsNum(10), JsNum(-1), JsBool(TRUE) }

\* const search = {}
NewSearch ==
  /\ searchArg = Undefined
  /\ queryOut = NotBuilt
  /\ searchArg' = JsObj(<<>>)
  /\ UNCHANGED queryOut
  /\ UNCHANGED outsideQuery

\* search[name] = value
SetParam(name, value) ==
  /\ searchArg # Undefined
  /\ queryOut = NotBuilt
  /\ HasKey(searchArg.entries, name) \/ Len(searchArg.entries) < MaxParams
  /\ searchArg' = JsObj(SetProp(searchArg.entries, name, value))
  /\ UNCHANGED queryOut
  /\ UNCHANGED outsideQuery

\* buildQuery(search)
BuildQuery ==
  /\ queryOut = NotBuilt
  /\ queryOut' = Built(buildQuery(searchArg))
  /\ UNCHANGED searchArg
  /\ UNCHANGED outsideQuery

\* the caller has used the query; the next mapping starts afresh
DropQuery ==
  /\ queryOut # NotBuilt
  /\ searchArg' = Undefined
  /\ queryOut' = NotBuilt
  /\ UNCHANGED outsideQuery

QueryNext ==
  \/ NewSearch
  \/ \E name \in ParamNames, value \in ParamValues : SetParam(name, value)
  \/ BuildQuery
  \/ DropQuery

SpecQuery == Init /\ [][QueryNext]_vars

\* the pieces of a text between the occurrences of a separator character
RECURSIVE SplitOn(_, _)
SplitOn(s, sep) ==
  IF \E i \in 1..Len(s) : s[i] = sep
  THEN LET i == CHOOSE i \in 1..Len(s) : s[i] = sep /\ \A j \in 1..(i - 1) : s[j] # sep
       IN <<SubSeq(s, 1, i - 1)>> \o SplitOn(SubSeq(s, i + 1, Len(s)), sep)
  ELSE <<s>>

\* application/x-www-form-urlencoded decoding of a name or a value: "+" is a
\* space and %XX is the character of that code
RECURSIVE FormDecode(_)
FormDecode(s) ==
  IF s = <<>> THEN <<>>
  ELSE IF s[1] = "+" THEN <<" ">> \o FormDecode(Tail(s))
  ELSE IF s[1] = "%" /\ Len(s) >= 3 /\ \E c \in DOMAIN PercentCode : PercentCode[c] = SubSeq(s, 1, 3)
  THEN <<CHOOSE c \in DOMAIN PercentCode : PercentCode[c] = SubSeq(s, 1, 3)>>
         \o FormDecode(SubSeq(s, 4, Len(s)))
  ELSE <<s[1]>> \o FormDecode(Tail(s))

\* the name/value pair of one non-empty piece of a query
FormPair(piece) ==
  LET parts == SplitOn(piece, "=") IN
  [ name |-> FormDecode(parts[1]),
    value |-> FormDecode(SubSeq(piece, Len(parts[1]) + 2, Len(piece))) ]

\* new URLSearchParams(text): the list of name/value pairs of the query
URLSearchParams(text) ==
  LET pieces == SelectSeq(SplitOn(text, "&"), LAMBDA p : p # <<>>) IN
  [i \in 1..Len(pieces) |-> FormPair(pieces[i])]

\* params.get(name): the value of the first pair of that name, or null
ParamsGet(params, name) ==
  IF \E i \in 1..Len(params) : params[i].name = name
  THEN JsStr(params[CHOOSE i \in 1..Len(params) :
                      /\ params[i].name = name
                      /\ \A j \in 1..(i - 1) : params[j].name # name].value)
  ELSE JsNull

(***************************************************************************)
(* Client calls made side by side: each call runs apiRequest to its fetch, *)
(* and continues when the promise of its own fetch settles                 *)
(***************************************************************************)

T_rowsTwo == <<"[", "{", "\"", "i", "d", "\"", ":", "2", ",", "\"", "t", "i", "t", "l", "e", "\"", ":", "\"", "B", "\"", "}", ",", "{", "\"", "i", "d", "\"", ":", "1", ",", "\"", "t", "i", "t", "l", "e", "\"", ":", "\"", "A", "\"", "}", "]">>

\* the calls made side by side
FlightCalls ==
  { Invocation("listInterviews", 0, S_paging, listInterviews(S_paging)),
    Invocation("listInterviews", 0, Undefined, listInterviews(Undefined)),
    Invocation("countQuestionsForInterview", 1, Undefined, countQuestionsForInterview(1)),
    Invocation("countApplicantsForInterview", 1, Undefined, countApplicantsForInterview(1)),
    Invocation("createInterview", 0, R_plain, createInterview(R_plain)) }

\* the replies the backend gives them
FlightReplies ==
  { HttpResponse(200, JsStr(CT_json), T_rows),
    HttpResponse(200, JsStr(CT_json), T_rowsTwo),
    HttpResponse(200, JsStr(CT_json), T_count3),
    HttpResponse(404, JsStr(CT_json), T_noRows),
    HttpResponse(500, JsNull, T_html) }

\* variant: a call identical to one still in flight shares that call's fetch
Invoke_Coalesced(f, inv) ==
  /\ flights[f].pc = "idle"
  /\ \A g \in 1..(f - 1) : flights[g].pc # "idle"
  /\ IF \E g \in Flights : flights[g].pc = "inflight" /\ flights[g].call = inv
     THEN /\ flights' = [flights EXCEPT ![f] =
                           [ pc |-> "inflight", call |-> inv,
                             fetchIx |-> flights[CHOOSE g \in Flights :
                                                   flights[g].pc = "inflight" /\ flights[g].call = inv].fetchIx,
                             apiOutcome |-> Pending, outcome |-> Pending ]]
          /\ UNCHANGED network
     ELSE /\ network' = Append(network, [request |-> FetchCall(inv.path, inv.init), reply |-> NoResponse])
          /\ flights' = [flights EXCEPT ![f] =
                           [ pc |-> "inflight", call |-> inv, fetchIx |-> Len(network) + 1,
                             apiOutcome |-> Pending, outcome |-> Pending ]]
  /\ UNCHANGED outsideFlights

\* variant: every fetch carries a serial number in its URL
Invoke_Stamped(f, inv) ==
  /\ flights[f].pc = "idle"
  /\ \A g \in 1..(f - 1) : flights[g].pc # "idle"
  /\ network' = Append(network,
                       [ request |-> [FetchCall(inv.path, inv.init) EXCEPT
                                        !.url = @ \o <<"&", "_", "=">> \o IntToText(Len(network))],
                         reply |-> NoResponse ])
  /\ flights' = [flights EXCEPT ![f] =
                   [ pc |-> "inflight", call |-> inv, fetchIx |-> Len(network) + 1,
                     apiOutcome |-> Pending, outcome |-> Pending ]]
  /\ UNCHANGED outsideFlights

\* a client call starts: the synchronous part of apiRequest, up to its fetch call
\* (the calls take the flights in order)
Invoke(f, inv) ==
  /\ flights[f].pc = "idle"
  /\ \A g \in 1..(f - 1) : flights[g].pc # "idle"
  /\ network' = Append(network, [request |-> FetchCall(inv.path, inv.init), reply |-> NoResponse])
  /\ flights' = [flights EXCEPT ![f] =
                   [ pc |-> "inflight", call |-> inv, fetchIx |-> Len(network) + 1,
                     apiOutcome |-> Pending, outcome |-> Pending ]]
  /\ UNCHANGED outsideFlights

\* the calls that await the k-th fetch continue with what it settled to
Continue(k, apiOut) ==
  [f \in Flights |->
     IF flights[f].pc = "inflight" /\ flights[f].fetchIx = k
     THEN [flights[f] EXCEPT !.pc = "settled", !.apiOutcome = apiOut,
                             !.outcome = ClientOutcome(flights[f].call.fn, apiOut)]
     ELSE flights[f]]

\* the k-th fetch resolves with a response
Reply(k, r) ==
  /\ k \in 1..Len(network)
  /\ network[k].reply = NoResponse
  /\ network' = [network EXCEPT ![k].reply =
                   [kind |-> "http", status |-> r.status, contentType |-> r.contentType, text |-> r.text]]
  /\ flights' = Continue(k, ApiResponse(r).outcome)
  /\ UNCHANGED outsideFlights

\* the k-th fetch rejects
ReplyError(k, e) ==
  /\ k \in 1..Len(network)
  /\ network[k].reply = NoResponse
  /\ network' = [network EXCEPT ![k].reply = [kind |-> "network", error |-> e]]
  /\ flights' = Continue(k, Rejected(e))
  /\ UNCHANGED outsideFlights

FlightNext ==
  \/ \E f \in Flights, inv \in FlightCalls : Invoke(f, inv)
  \/ \E k \in 1..MaxFlights, r \in FlightReplies : Reply(k, r)
  \/ \E k \in 1..MaxFlights, e \in NetworkErrors : ReplyError(k, e)

SpecFlights == Init /\ [][FlightNext]_vars

(***************************************************************************)
(* The Interviews page: its form, its asynchronous handlers and the calls  *)
(* they make to the client functions                                       *)
(***************************************************************************)

EMPTY_FORM ==
  JsObj(<< Prop(<<"t", "i", "t", "l", "e">>, JsStr(<<>>)), Prop(<<"j", "o", "b", "_", "r", "o", "l", "e">>, JsStr(<<>>)),
           Prop(<<"d", "e", "s", "c", "r", "i", "p", "t", "i", "o", "n">>, JsStr(<<>>)), Prop(<<"s", "t", "a", "t", "u", "s">>, JsStr(<<>>)) >>)

RECURSIVE TrimStart(_)
TrimStart(s) == IF s # <<>> /\ Head(s) \in WhiteSpace THEN TrimStart(Tail(s)) ELSE s

RECURSIVE TrimEnd(_)
TrimEnd(s) ==
  IF s # <<>> /\ s[Len(s)] \in WhiteSpace THEN TrimEnd(SubSeq(s, 1, Len(s) - 1)) ELSE s

\* String.prototype.trim
Trim(s) == TrimEnd(TrimStart(s))

\* if (!state[field].trim()) nextErrors[field] = message
RequiredError(state, field, message) ==
  IF Trim(Get(state, field).s) = <<>> THEN <<Prop(field, message)>> ELSE <<>>

\* the errors object, as its properties in insertion order
validateInterviewForm(state) ==
  RequiredError(state, <<"t", "i", "t", "l", "e">>, <<"T", "i", "t", "l", "e", " ", "i", "s", " ", "r", "e", "q", "u", "i", "r", "e", "d", ".">>)
    \o RequiredError(state, <<"j", "o", "b", "_", "r", "o", "l", "e">>, <<"J", "o", "b", " ", "r", "o", "l", "e", " ", "i", "s", " ", "r", "e", "q", "u", "i", "r", "e", "d", ".">>)
    \o RequiredError(state, <<"d", "e", "s", "c", "r", "i", "p", "t", "i", "o", "n">>, <<"D", "e", "s", "c", "r", "i", "p", "t", "i", "o", "n", " ", "i", "s", " ", "r", "e", "q", "u", "i", "r", "e", "d", ".">>)
    \o RequiredError(state, <<"s", "t", "a", "t", "u", "s">>, <<"S", "t", "a", "t", "u", "s", " ", "i", "s", " ", "r", "e", "q", "u", "i", "r", "e", "d", ".">>)

\* the useState values of the page at its first render
InitialUi ==
  [ mounted |-> TRUE, interviews |-> <<>>, page |-> 0, pageSize |-> 5, order |-> <<"i", "d", ".", "d", "e", "s", "c">>,
    loading |-> FALSE, error |-> JsNull, formState |-> EMPTY_FORM, formErrors |-> <<>>,
    editingId |-> JsNull, submitting |-> FALSE,
    prompt |-> JsNull ]    \* the id window.confirm is asking about, while it is open

\* window.confirm is open: it blocks the thread until it is answered
Prompting == ui.mounted /\ ui.prompt # JsNull

\* the page takes the events of its user
Interactive == ui.mounted /\ ui.prompt = JsNull

\* a call of a client function made by the page, and what it settled to
PageCall(fn, id, arg) == [fn |-> fn, id |-> id, arg |-> arg, state |-> "pending", value |-> Undefined]

\* { order, limit, offset }
ListParams(order, limit, offset) ==
  JsObj(<<Prop(<<"o", "r", "d", "e", "r">>, JsStr(order)), Prop(<<"l", "i", "m", "i", "t">>, JsNum(limit)), Prop(<<"o", "f", "f", "s", "e", "t">>, JsNum(offset))>>)

\* an asynchronous handler at its first await: loadInterviews awaits the list
\* call of fetchInterviewsWithCounts
LoadTask(order, limit, offset) ==
  [ kind |-> "load", stage |-> "listing", args |-> JsNull,
    order |-> order, limit |-> limit, offset |-> offset,
    log |-> <<PageCall("listInterviews", 0, ListParams(order, limit, offset))>>,
    rows |-> <<>>, result |-> Pending ]

\* variant: the record is always created
SubmitTask_CreateOnly(formState, editingId, order, page, pageSize) ==
  [ kind |-> "submit", stage |-> "saving",
    args |-> [ editingId |-> editingId, formState |-> formState, order |-> order, page |-> page,
               pageSize |-> pageSize ],
    order |-> order, limit |-> pageSize, offset |-> page * pageSize,
    log |-> << PageCall("createInterview", 0, formState) >>,
    rows |-> <<>>, result |-> Pending ]

\* saveInterviewAndReload({ editingId, formState, order, page, pageSize }) at its
\* first await, the mutation; handleSubmit awaits it
SubmitTask(formState, editingId, order, page, pageSize) ==
  [ kind |-> "submit", stage |-> "saving",
    args |-> [ editingId |-> editingId, formState |-> formState, order |-> order, page |-> page,
               pageSize |-> pageSize ],
    order |-> order, limit |-> pageSize, offset |-> page * pageSize,
    log |-> << IF editingId # JsNull
               THEN PageCall("updateInterview", editingId.n, formState)
               ELSE PageCall("createInterview", 0, formState) >>,
    rows |-> <<>>, result |-> Pending ]

\* handleDelete(id) at its first await, with the editingId and the loadInterviews
\* of the render it was created in
DeleteTask(id, editingId, order, page, pageSize) ==
  [ kind |-> "delete", stage |-> "deleting",
    args |-> [id |-> id, editingId |-> editingId],
    order |-> order, limit |-> pageSize, offset |-> page * pageSize,
    log |-> << PageCall("deleteInterview", id.n, Undefined) >>,
    rows |-> <<>>, result |-> Pending ]

\* the lowest free task
FreeTask == CHOOSE t \in Tasks : tasks[t] = NoTask /\ \A u \in 1..(t - 1) : tasks[u] # NoTask

\* the first render and its effect
Mount ==
  /\ ui = Unmounted
  /\ qui = Unmounted    \* the router renders one page at a time
  /\ ui' = [InitialUi EXCEPT !.loading = TRUE]
  /\ tasks' = [tasks EXCEPT ![1] = LoadTask(InitialUi.order, InitialUi.pageSize, 0)]
  /\ UNCHANGED outsidePage

\* handleInputChange: { ...prev, [name]: value }
HandleInputChange(name, value) ==
  /\ Interactive
  /\ ui' = [ui EXCEPT !.formState = JsObj(Spread(ui.formState.entries, <<Prop(name, JsStr(value))>>))]
  /\ UNCHANGED tasks
  /\ UNCHANGED outsidePage

\* variant: the errors of the validator do not stop the submission
HasErrors_Never(validation) == FALSE

\* Object.keys(validation).length > 0
HasErrors(validation) == Len(validation) > 0

\* handleSubmit, up to its return or its first await; the submit button is
\* disabled while submitting
HandleSubmit ==
  /\ Interactive
  /\ ~ui.submitting
  /\ LET validation == validateInterviewForm(ui.formState)
         isEditing == ui.editingId # JsNull
         targetPage == IF isEditing THEN ui.page ELSE 0
     IN IF HasErrors(validation)
        THEN /\ ui' = [ui EXCEPT !.error = JsNull, !.formErrors = validation]
             /\ UNCHANGED tasks
        ELSE /\ \E t \in Tasks : tasks[t] = NoTask
             /\ ui' = [ui EXCEPT !.error = JsNull, !.formErrors = validation,
                                 !.submitting = TRUE,
                                 !.page = IF ~isEditing /\ ui.page # 0 THEN 0 ELSE @]
             /\ tasks' = [tasks EXCEPT ![FreeTask] =
                            SubmitTask(ui.formState, ui.editingId, ui.order, targetPage, ui.pageSize)]
  /\ UNCHANGED outsidePage

\* interview.description ?? ''
OrEmpty(v) == IF v.t \in {"null", "undefined"} THEN JsStr(<<>>) ELSE v

\* handleEdit of the k-th row shown (the table is rendered when not loading)
HandleEdit(k) ==
  /\ Interactive
  /\ ~ui.loading
  /\ k \in 1..Len(ui.interviews)
  /\ LET interview == ui.interviews[k] IN
     ui' = [ui EXCEPT !.editingId = Get(interview, <<"i", "d">>),
                      !.formState =
                         JsObj(<< Prop(<<"t", "i", "t", "l", "e">>, Get(interview, <<"t", "i", "t", "l", "e">>)),
                                  Prop(<<"j", "o", "b", "_", "r", "o", "l", "e">>, Get(interview, <<"j", "o", "b", "_", "r", "o", "l", "e">>)),
                                  Prop(<<"d", "e", "s", "c", "r", "i", "p", "t", "i", "o", "n">>, OrEmpty(Get(interview, <<"d", "e", "s", "c", "r", "i", "p", "t", "i", "o", "n">>))),
                                  Prop(<<"s", "t", "a", "t", "u", "s">>, Get(interview, <<"s", "t", "a", "t", "u", "s">>)) >>),
                      !.formErrors = <<>>]
  /\ UNCHANGED tasks
  /\ UNCHANGED outsidePage

\* the Delete button of the k-th row shown: handleDelete opens window.confirm
HandleDelete(k) ==
  /\ Interactive
  /\ ~ui.loading
  /\ k \in 1..Len(ui.interviews)
  /\ ui' = [ui EXCEPT !.prompt = Get(ui.interviews[k], <<"i", "d">>)]
  /\ UNCHANGED tasks
  /\ UNCHANGED outsidePage

\* window.confirm returns: handleDelete returns, or runs up to its first await
AnswerPrompt(confirmed) ==
  /\ Prompting
  /\ IF ~confirmed
     THEN /\ ui' = [ui EXCEPT !.prompt = JsNull]
          /\ UNCHANGED tasks
     ELSE /\ \E t \in Tasks : tasks[t] = NoTask
          /\ ui' = [ui EXCEPT !.prompt = JsNull, !.submitting = TRUE, !.error = JsNull]
          /\ tasks' = [tasks EXCEPT ![FreeTask] =
                         DeleteTask(ui.prompt, ui.editingId, ui.order, ui.page, ui.pageSize)]
  /\ UNCHANGED outsidePage

\* handleCancelEdit: the Cancel button exists while editing and is disabled
\* while submitting
HandleCancelEdit ==
  /\ Interactive
  /\ ui.editingId # JsNull
  /\ ~ui.submitting
  /\ ui' = [ui EXCEPT !.formState = EMPTY_FORM, !.formErrors = <<>>, !.editingId = JsNull]
  /\ UNCHANGED tasks
  /\ UNCHANGED outsidePage

\* the error fetchInterviewsWithCounts throws for a payload that is no array
NotArrayError(payload) ==
  JsError("Error",
          <<"U", "n", "a", "b", "l", "e", " ", "t", "o", " ", "l", "o", "a", "d", " ", "i", "n", "t", "e", "r", "v", "i", "e", "w", "s", ":", " ", "e", "x", "p", "e", "c", "t", "e", "d", " ", "a", "n", " ", "a", "r", "r", "a", "y", " ", "r", "e", "s", "p", "o", "n", "s", "e", " ", "f", "r", "o", "m", " ", "t", "h", "e", " ", "A", "P", "I", ".", " ", "P", "l", "e", "a", "s", "e", " ", "v", "e", "r", "i", "f", "y", " ", "y", "o", "u", "r", " ", "A", "P", "I", "_", "B", "A", "S", "E", " ", "c", "o", "n", "f", "i", "g", "u", "r", "a", "t", "i", "o", "n", ".", " ", "R", "e", "c", "e", "i", "v", "e", "d", ":", " ">>
            \o Slice0(IF payload.t = "string" THEN payload.s ELSE JSONStringify(payload), 120))

\* the count calls of interviewList.map(...): for each interview, in order, its
\* questions and its applicants
RECURSIVE CountCalls(_)
CountCalls(rows) ==
  IF rows = <<>> THEN <<>>
  ELSE << PageCall("countQuestionsForInterview", 0, Get(Head(rows), <<"i", "d">>)),
          PageCall("countApplicantsForInterview", 0, Get(Head(rows), <<"i", "d">>)) >>
         \o CountCalls(Tail(rows))

\* the position in the log of the list call of a task
ListIx(task) == IF task.kind = "load" THEN 1 ELSE 2

\* variant: every interview is given the counts of the first one
Enriched_FirstCounts(task) ==
  [ j \in 1..Len(task.rows) |->
      JsObj(SpreadInto(Spread(<<>>, task.rows[j].entries),
                       << Prop(<<"q", "u", "e", "s", "t", "i", "o", "n", "C", "o", "u", "n", "t">>, task.log[ListIx(task) + 1].value),
                          Prop(<<"a", "p", "p", "l", "i", "c", "a", "n", "t", "C", "o", "u", "n", "t">>, task.log[ListIx(task) + 2].value) >>)) ]

\* { ...interview, questionCount, applicantCount } for every interview, in order
Enriched(task) ==
  [ j \in 1..Len(task.rows) |->
      JsObj(SpreadInto(Spread(<<>>, task.rows[j].entries),
                       << Prop(<<"q", "u", "e", "s", "t", "i", "o", "n", "C", "o", "u", "n", "t">>, task.log[ListIx(task) + 2 * j - 1].value),
                          Prop(<<"a", "p", "p", "l", "i", "c", "a", "n", "t", "C", "o", "u", "n", "t">>, task.log[ListIx(task) + 2 * j].value) >>)) ]

\* the function or handler of task t ends with an error: its catch block, and
\* for handleDelete the catch block of the loadInterviews it awaits
Fails(t, task, error) ==
  /\ tasks' = [tasks EXCEPT ![t] = [task EXCEPT !.stage = "done", !.result = Rejected(error)]]
  /\ ui' = CASE task.kind = "load" ->
                  [ui EXCEPT !.error = JsStr(error.message), !.loading = FALSE]
             [] task.kind = "submit" ->
                  [ui EXCEPT !.error = JsStr(error.message), !.submitting = FALSE]
             [] task.kind = "delete" /\ task.stage = "deleting" ->
                  [ui EXCEPT !.error = JsStr(error.message), !.submitting = FALSE]
             [] task.kind = "delete" /\ task.stage # "deleting" ->
                  [ui EXCEPT !.error = JsStr(error.message), !.loading = FALSE,
                             !.submitting = FALSE]
             [] OTHER -> ui

\* the function or handler of task t ends with the refreshed list
Succeeds(t, task, refreshed) ==
  /\ tasks' = [tasks EXCEPT ![t] = [task EXCEPT !.stage = "done", !.result = Resolved(JsArr(refreshed))]]
  /\ ui' = CASE task.kind = "load" ->
                  [ui EXCEPT !.interviews = refreshed, !.loading = FALSE]
             [] task.kind = "submit" ->
                  [ui EXCEPT !.formState = EMPTY_FORM, !.formErrors = <<>>, !.editingId = JsNull,
                             !.interviews = refreshed, !.submitting = FALSE]
             [] task.kind = "delete" ->
                  [ui EXCEPT !.interviews = refreshed, !.loading = FALSE, !.submitting = FALSE]
             [] OTHER -> ui

\* task t awaits its i-th call
Awaited(t, i) ==
  /\ tasks[t] # NoTask
  /\ tasks[t].stage # "done"
  /\ i \in 1..Len(tasks[t].log)
  /\ tasks[t].log[i].state = "pending"

\* what the client functions resolve to
I_one ==
  JsObj(<< Prop(<<"i", "d">>, JsNum(1)), Prop(<<"t", "i", "t", "l", "e">>, JsStr(<<"D", "e", "v">>)), Prop(<<"j", "o", "b", "_", "r", "o", "l", "e">>, JsStr(<<"Q", "A">>)),
           Prop(<<"d", "e", "s", "c", "r", "i", "p", "t", "i", "o", "n">>, JsNull), Prop(<<"s", "t", "a", "t", "u", "s">>, JsStr(<<"D", "r", "a", "f", "t">>)) >>)

ListPayloads == { JsArr(<<>>), JsArr(<<I_one>>), JsStr(T_html) }

QuestionCounts == { JsNum(2) }

ApplicantCounts == { JsNum(0) }

I_two ==
  JsObj(<< Prop(<<"i", "d">>, JsNum(2)), Prop(<<"t", "i", "t", "l", "e">>, JsStr(<<"O", "p", "s">>)), Prop(<<"j", "o", "b", "_", "r", "o", "l", "e">>, JsStr(<<"S", "R", "E">>)),
           Prop(<<"d", "e", "s", "c", "r", "i", "p", "t", "i", "o", "n">>, JsStr(<<"O", "n", " ", "c", "a", "l", "l">>)), Prop(<<"s", "t", "a", "t", "u", "s">>, JsStr(<<"P", "u", "b", "l", "i", "s", "h", "e", "d">>)) >>)

\* a wider choice of results, for the listing taken alone
WideListPayloads == ListPayloads \cup { JsArr(<<I_two, I_one>>), JsNull }

WideQuestionCounts == QuestionCounts \cup { JsNum(3) }

WideApplicantCounts == ApplicantCounts \cup { JsNum(1) }

ResultsOf(fn) ==
  CASE fn = "listInterviews" -> WideListPayloads
    [] fn = "countQuestionsForInterview" -> WideQuestionCounts
    [] fn = "countApplicantsForInterview" -> WideApplicantCounts
    [] OTHER -> { JsArr(<<I_one>>) }

ApiErrors == { JsError("Error", FailureMessage(500, <<>>)) }

\* the i-th call of task t resolves: the handler runs to its next await or its end
Resolves(t, i, value) ==
  /\ ~Prompting
  /\ Awaited(t, i)
  /\ value \in ResultsOf(tasks[t].log[i].fn)
  /\ LET task == [tasks[t] EXCEPT !.log[i].state = "resolved", !.log[i].value = value] IN
     CASE task.stage = "saving" ->
            /\ tasks' = [tasks EXCEPT ![t] =
                           [task EXCEPT !.stage = "listing",
                                        !.log = Append(@, PageCall("listInterviews", 0,
                                                          ListParams(task.order, task.limit, task.offset)))]]
            /\ UNCHANGED ui
       [] task.stage = "deleting" ->
            /\ tasks' = [tasks EXCEPT ![t] =
                           [task EXCEPT !.stage = "listing",
                                        !.log = Append(@, PageCall("listInterviews", 0,
                                                          ListParams(task.order, task.limit, task.offset)))]]
            /\ ui' = IF task.args.editingId = task.args.id
                     THEN [ui EXCEPT !.formState = EMPTY_FORM, !.formErrors = <<>>,
                                     !.editingId = JsNull, !.loading = TRUE, !.error = JsNull]
                     ELSE [ui EXCEPT !.loading = TRUE, !.error = JsNull]
       [] task.stage = "listing" ->
            IF value.t # "array" THEN Fails(t, task, NotArrayError(value))
            ELSE IF Len(value.items) = 0 THEN Succeeds(t, task, <<>>)
            ELSE /\ tasks' = [tasks EXCEPT ![t] =
                                [task EXCEPT !.stage = "counting", !.rows = value.items,
                                             !.log = @ \o CountCalls(value.items)]]
                 /\ UNCHANGED ui
       [] task.stage = "counting" ->
            IF \A j \in 1..Len(task.log) : task.log[j].state = "resolved"
            THEN Succeeds(t, task, Enriched(task))
            ELSE /\ tasks' = [tasks EXCEPT ![t] = task]
                 /\ UNCHANGED ui
  /\ UNCHANGED outsidePage

\* the i-th call of task t rejects: the error reaches the catch block of the handler
Rejects(t, i, error) ==
  /\ ~Prompting
  /\ Awaited(t, i)
  /\ Fails(t, [tasks[t] EXCEPT !.log[i].state = "rejected", !.log[i].value = JsStr(error.message)], error)
  /\ UNCHANGED outsidePage

\* what the user types into the fields of the form
FieldValues ==
  [ title |-> {<<" ">>, <<"D", "e", "v">>}, job_role |-> {<<"Q", "A">>},
    description |-> {<<"S", "c", "r", "e", "e", "n">>}, status |-> {<<"D", "r", "a", "f", "t">>, <<"A", "c", "t", "i", "v", "e">>} ]

\* the handler runs started so far
RunsStarted == Cardinality({t \in Tasks : tasks[t] # NoTask})

\* the form is studied with the load of the mount and one submission
MaxFormRuns == 2

PageNext ==
  \/ Mount
  \/ \E v \in FieldValues.title : HandleInputChange(<<"t", "i", "t", "l", "e">>, v)
  \/ \E v \in FieldValues.job_role : HandleInputChange(<<"j", "o", "b", "_", "r", "o", "l", "e">>, v)
  \/ \E v \in FieldValues.description : HandleInputChange(<<"d", "e", "s", "c", "r", "i", "p", "t", "i", "o", "n">>, v)
  \/ \E v \in FieldValues.status : HandleInputChange(<<"s", "t", "a", "t", "u", "s">>, v)
  \/ HandleSubmit /\ RunsStarted' <= MaxFormRuns
  \/ \E k \in 1..1 : HandleEdit(k)
  \/ HandleCancelEdit
  \/ \E t \in Tasks, i \in 1..4, v \in ListPayloads \cup QuestionCounts \cup ApplicantCounts :
       Resolves(t, i, v)
  \/ \E t \in Tasks, i \in 1..4, e \in ApiErrors : Rejects(t, i, e)

SpecInterviews == Init /\ [][PageNext]_vars

\* saveInterviewAndReload called on its own, as the tests of the repository call
\* it: no page is mounted
CallSave(formState, editingId, order, page, pageSize) ==
  /\ ui = Unmounted
  /\ \A t \in Tasks : tasks[t] = NoTask
  /\ tasks' = [tasks EXCEPT ![1] =
                 [SubmitTask(formState, editingId, order, page, pageSize) EXCEPT !.kind = "save"]]
  /\ UNCHANGED ui
  /\ UNCHANGED outsidePage

F_dev ==
  JsObj(<< Prop(<<"t", "i", "t", "l", "e">>, JsStr(<<"D", "e", "v">>)), Prop(<<"j", "o", "b", "_", "r", "o", "l", "e">>, JsStr(<<"Q", "A">>)),
           Prop(<<"d", "e", "s", "c", "r", "i", "p", "t", "i", "o", "n">>, JsStr(<<"S", "c", "r", "e", "e", "n">>)), Prop(<<"s", "t", "a", "t", "u", "s">>, JsStr(<<"D", "r", "a", "f", "t">>)) >>)

SaveForms == { EMPTY_FORM, F_dev }

SaveIds == { JsNull, JsNum(1), JsNum(2) }

SavePages == 0..2

SavePageSizes == { 5, 10 }

SaveNext ==
  \/ \E formState \in SaveForms, editingId \in SaveIds, page \in SavePages,
        pageSize \in SavePageSizes :
       CallSave(formState, editingId, <<"i", "d", ".", "d", "e", "s", "c">>, page, pageSize)
  \/ \E t \in Tasks, i \in 1..4, v \in ListPayloads \cup QuestionCounts \cup ApplicantCounts :
       Resolves(t, i, v)
  \/ \E t \in Tasks, i \in 1..4, e \in ApiErrors : Rejects(t, i, e)

SpecSave == Init /\ [][SaveNext]_vars

\* The rows of the Interviews page: editing, saving and deleting a record that is
\* listed, with the title typed into the form.
RowsNext ==
  \/ Mount
  \/ \E value \in FieldValues.title : HandleInputChange(<<"t", "i", "t", "l", "e">>, value)
  \/ HandleSubmit
  \/ \E k \in 1..1 : HandleEdit(k)
  \/ HandleCancelEdit
  \/ \E k \in 1..1 : HandleDelete(k)
  \/ \E confirmed \in BOOLEAN : AnswerPrompt(confirmed)
  \/ \E t \in Tasks, i \in 1..4, v \in ListPayloads \cup QuestionCounts \cup ApplicantCounts :
       Resolves(t, i, v)
  \/ \E t \in Tasks, i \in 1..4, e \in ApiErrors : Rejects(t, i, e)

SpecRows == Init /\ [][RowsNext]_vars

\* the page is opened and left alone: the listing of its first render, with the
\* wider choice of results
ListingNext ==
  \/ Mount
  \/ \E t \in Tasks, i \in 1..5, v \in WideListPayloads \cup WideQuestionCounts \cup WideApplicantCounts :
       Resolves(t, i, v)
  \/ \E t \in Tasks, i \in 1..5, e \in ApiErrors : Rejects(t, i, e)

SpecListing == Init /\ [][ListingNext]_vars

(***************************************************************************)
(* The summarization gateway, POST /api/summarize-applicant: validation,   *)
(* identity check, live or placeholder generation, response                *)
(***************************************************************************)

\* one entry of the details list of an error envelope
Issue(path, message) == [path |-> path, message |-> message]

\* a required text
TextIssues(v, path) ==
  IF v.t = "undefined" THEN <<Issue(path, <<"R", "e", "q", "u", "i", "r", "e", "d">>)>>
  ELSE IF v.t # "string" THEN <<Issue(path, <<"E", "x", "p", "e", "c", "t", "e", "d", " ", "s", "t", "r", "i", "n", "g">>)>>
  ELSE <<>>

\* a required text that may be null
NullableTextIssues(v, path) == IF v.t = "null" THEN <<>> ELSE TextIssues(v, path)

\* a text that may be left out
OptionalTextIssues(v, path) == IF v.t = "undefined" THEN <<>> ELSE TextIssues(v, path)

\* a required identity: a positive integer
IdentityIssues(v, path) ==
  IF v.t = "undefined" THEN <<Issue(path, <<"R", "e", "q", "u", "i", "r", "e", "d">>)>>
  ELSE IF v.t # "number" THEN <<Issue(path, <<"E", "x", "p", "e", "c", "t", "e", "d", " ", "i", "n", "t", "e", "g", "e", "r">>)>>
  ELSE IF v.n <= 0 THEN <<Issue(path, <<"E", "x", "p", "e", "c", "t", "e", "d", " ", "i", "n", "t", "e", "g", "e", "r", " ", ">", " ", "0">>)>>
  ELSE <<>>

\* durationSeconds: optional, a non-negative integer
DurationIssues(v, path) ==
  IF v.t = "undefined" THEN <<>>
  ELSE IF v.t # "number" THEN <<Issue(path, <<"E", "x", "p", "e", "c", "t", "e", "d", " ", "i", "n", "t", "e", "g", "e", "r">>)>>
  ELSE IF v.n < 0 THEN <<Issue(path, <<"E", "x", "p", "e", "c", "t", "e", "d", " ", "i", "n", "t", "e", "g", "e", "r", " ", ">", "=", " ", "0">>)>>
  ELSE <<>>

\* applicantName: { title, first, last }
NameIssues(v, path) ==
  IF v.t # "object" THEN <<Issue(path, IF v.t = "undefined" THEN <<"R", "e", "q", "u", "i", "r", "e", "d">> ELSE <<"E", "x", "p", "e", "c", "t", "e", "d", " ", "o", "b", "j", "e", "c", "t">>)>>
  ELSE TextIssues(Get(v, <<"t", "i", "t", "l", "e">>), Append(path, JsStr(<<"t", "i", "t", "l", "e">>)))
         \o TextIssues(Get(v, <<"f", "i", "r", "s", "t">>), Append(path, JsStr(<<"f", "i", "r", "s", "t">>)))
         \o TextIssues(Get(v, <<"l", "a", "s", "t">>), Append(path, JsStr(<<"l", "a", "s", "t">>)))

\* one answer record
AnswerIssues(v, path) ==
  IF v.t # "object" THEN <<Issue(path, <<"E", "x", "p", "e", "c", "t", "e", "d", " ", "o", "b", "j", "e", "c", "t">>)>>
  ELSE IdentityIssues(Get(v, <<"q", "u", "e", "s", "t", "i", "o", "n", "I", "d">>), Append(path, JsStr(<<"q", "u", "e", "s", "t", "i", "o", "n", "I", "d">>)))
         \o TextIssues(Get(v, <<"q", "u", "e", "s", "t", "i", "o", "n">>), Append(path, JsStr(<<"q", "u", "e", "s", "t", "i", "o", "n">>)))
         \o NullableTextIssues(Get(v, <<"a", "n", "s", "w", "e", "r">>), Append(path, JsStr(<<"a", "n", "s", "w", "e", "r">>)))
         \o NullableTextIssues(Get(v, <<"t", "r", "a", "n", "s", "c", "r", "i", "p", "t">>), Append(path, JsStr(<<"t", "r", "a", "n", "s", "c", "r", "i", "p", "t">>)))
         \o DurationIssues(Get(v, <<"d", "u", "r", "a", "t", "i", "o", "n", "S", "e", "c", "o", "n", "d", "s">>), Append(path, JsStr(<<"d", "u", "r", "a", "t", "i", "o", "n", "S", "e", "c", "o", "n", "d", "s">>)))

\* answers: the sequence of answer records; the path of a record holds its
\* zero-based index
AnswersIssues(v, path) ==
  IF v.t # "array" THEN <<Issue(path, IF v.t = "undefined" THEN <<"R", "e", "q", "u", "i", "r", "e", "d">> ELSE <<"E", "x", "p", "e", "c", "t", "e", "d", " ", "a", "r", "r", "a", "y">>)>>
  ELSE Join([i \in 1..Len(v.items) |-> AnswerIssues(v.items[i], Append(path, JsNum(i - 1)))], <<>>)

\* only the first violation found
SchemaViolations_FirstOnly(request) ==
  LET all ==
        TextIssues(Get(request, <<"u", "s", "e", "r", "n", "a", "m", "e">>), <<JsStr(<<"u", "s", "e", "r", "n", "a", "m", "e">>)>>)
          \o IdentityIssues(Get(request, <<"a", "p", "p", "l", "i", "c", "a", "n", "t", "I", "d">>), <<JsStr(<<"a", "p", "p", "l", "i", "c", "a", "n", "t", "I", "d">>)>>)
          \o IdentityIssues(Get(request, <<"i", "n", "t", "e", "r", "v", "i", "e", "w", "I", "d">>), <<JsStr(<<"i", "n", "t", "e", "r", "v", "i", "e", "w", "I", "d">>)>>)
          \o NameIssues(Get(request, <<"a", "p", "p", "l", "i", "c", "a", "n", "t", "N", "a", "m", "e">>), <<JsStr(<<"a", "p", "p", "l", "i", "c", "a", "n", "t", "N", "a", "m", "e">>)>>)
          \o TextIssues(Get(request, <<"j", "o", "b", "R", "o", "l", "e">>), <<JsStr(<<"j", "o", "b", "R", "o", "l", "e">>)>>)
          \o AnswersIssues(Get(request, <<"a", "n", "s", "w", "e", "r", "s">>), <<JsStr(<<"a", "n", "s", "w", "e", "r", "s">>)>>)
          \o OptionalTextIssues(Get(request, <<"s", "k", "i", "l", "l", "s", "S", "u", "m", "m", "a", "r", "y">>), <<JsStr(<<"s", "k", "i", "l", "l", "s", "S", "u", "m", "m", "a", "r", "y">>)>>)
  IN IF all = <<>> THEN <<>> ELSE <<all[1]>>

\* the request checked field by field against the schema: every violation
\* found, in the order of the fields
SchemaViolations(request) ==
  TextIssues(Get(request, <<"u", "s", "e", "r", "n", "a", "m", "e">>), <<JsStr(<<"u", "s", "e", "r", "n", "a", "m", "e">>)>>)
    \o IdentityIssues(Get(request, <<"a", "p", "p", "l", "i", "c", "a", "n", "t", "I", "d">>), <<JsStr(<<"a", "p", "p", "l", "i", "c", "a", "n", "t", "I", "d">>)>>)
    \o IdentityIssues(Get(request, <<"i", "n", "t", "e", "r", "v", "i", "e", "w", "I", "d">>), <<JsStr(<<"i", "n", "t", "e", "r", "v", "i", "e", "w", "I", "d">>)>>)
    \o NameIssues(Get(request, <<"a", "p", "p", "l", "i", "c", "a", "n", "t", "N", "a", "m", "e">>), <<JsStr(<<"a", "p", "p", "l", "i", "c", "a", "n", "t", "N", "a", "m", "e">>)>>)
    \o TextIssues(Get(request, <<"j", "o", "b", "R", "o", "l", "e">>), <<JsStr(<<"j", "o", "b", "R", "o", "l", "e">>)>>)
    \o AnswersIssues(Get(request, <<"a", "n", "s", "w", "e", "r", "s">>), <<JsStr(<<"a", "n", "s", "w", "e", "r", "s">>)>>)
    \o OptionalTextIssues(Get(request, <<"s", "k", "i", "l", "l", "s", "S", "u", "m", "m", "a", "r", "y">>), <<JsStr(<<"s", "k", "i", "l", "l", "s", "S", "u", "m", "m", "a", "r", "y">>)>>)

\* the declared identity equals the identity established by the credential
IdentityMatches_Any(request, subject) == TRUE

IdentityMatches(request, subject) == Get(request, <<"u", "s", "e", "r", "n", "a", "m", "e">>) = JsStr(subject)

\* a live-generation credential is configured: GENAI_API_KEY is set and not empty
KeyConfigured_Set(key) == key.t # "undefined"

KeyConfigured(key) == key.t = "string" /\ key.s # <<>>

\* the error envelope and its HTTP status
ErrorResponse(status, code, message, details) ==
  [kind |-> "error", status |-> status, code |-> code, message |-> message, details |-> details]

\* the summary envelope, HTTP 200
SummaryResponse(summary) == [kind |-> "summary", status |-> 200, summary |-> summary]

NoReply == [kind |-> "none"]

\* the text "dddd-dd-ddTdd:dd:dd.dddZ" with a month, a day, an hour, a minute
\* and a second in their ranges
IsoPattern == <<"d", "d", "d", "d", "-", "d", "d", "-", "d", "d", "T", "d", "d", ":", "d", "d", ":", "d", "d", ".", "d", "d", "d", "Z">>

TwoDigits(text, i) == 10 * DigitValue(text[i]) + DigitValue(text[i + 1])

IsIsoUtc(text) ==
  /\ Len(text) = Len(IsoPattern)
  /\ \A i \in 1..Len(IsoPattern) :
        IF IsoPattern[i] = "d" THEN text[i] \in DigitSet ELSE text[i] = IsoPattern[i]
  /\ TwoDigits(text, 6) \in 1..12
  /\ TwoDigits(text, 9) \in 1..31
  /\ TwoDigits(text, 12) \in 0..23
  /\ TwoDigits(text, 15) \in 0..59
  /\ TwoDigits(text, 18) \in 0..59

\* the synthetic timestamp of a placeholder
SyntheticTimestamp == <<"1", "9", "7", "0", "-", "0", "1", "-", "0", "1", "T", "0", "0", ":", "0", "0", ":", "0", "0", ".", "0", "0", "0", "Z">>

\* the static copy of the placeholder
PlaceholderOverview ==
  <<"P", "l", "a", "c", "e", "h", "o", "l", "d", "e", "r", " ", "s", "u", "m", "m", "a", "r", "y", ":", " ", "n", "o", " ", "l", "i", "v", "e", " ", "s", "u", "m", "m", "a", "r", "y", " ", "c", "o", "u", "l", "d", " ", "b", "e", " ", "p", "r", "o", "d", "u", "c", "e", "d", " ", "b", "e", "c", "a", "u", "s", "e", " ", "G", "E", "N", "A", "I", "_", "A", "P", "I", "_", "K", "E", "Y", " ", "i", "s", " ", "n", "o", "t", " ", "c", "o", "n", "f", "i", "g", "u", "r", "e", "d", ".">>

PlaceholderRecommendation ==
  <<"N", "o", " ", "r", "e", "c", "o", "m", "m", "e", "n", "d", "a", "t", "i", "o", "n", ":", " ", "n", "o", " ", "l", "i", "v", "e", " ", "s", "u", "m", "m", "a", "r", "y", " ", "c", "o", "u", "l", "d", " ", "b", "e", " ", "p", "r", "o", "d", "u", "c", "e", "d", ".", " ", "C", "o", "n", "f", "i", "g", "u", "r", "e", " ", "G", "E", "N", "A", "I", "_", "A", "P", "I", "_", "K", "E", "Y", " ", "t", "o", " ", "e", "n", "a", "b", "l", "e", " ", "l", "i", "v", "e", " ", "s", "u", "m", "m", "a", "r", "i", "e", "s", ".">>

PlaceholderDraft ==
  [ overview |-> PlaceholderOverview, strengths |-> <<>>, risks |-> <<>>,
    recommendation |-> PlaceholderRecommendation ]

\* the strengths entry synthesized when a branch produced none
GenericStrength == <<"N", "o", " ", "s", "p", "e", "c", "i", "f", "i", "c", " ", "s", "t", "r", "e", "n", "g", "t", "h", "s", " ", "w", "e", "r", "e", " ", "i", "d", "e", "n", "t", "i", "f", "i", "e", "d", ".">>

\* the single response-formatting step of both branches
Summary_AsProduced(request, draft, generatedAt, isPlaceholder) ==
  [ applicantId |-> Get(request, <<"a", "p", "p", "l", "i", "c", "a", "n", "t", "I", "d">>).n, interviewId |-> Get(request, <<"i", "n", "t", "e", "r", "v", "i", "e", "w", "I", "d">>).n,
    generatedAt |-> generatedAt, overview |-> draft.overview, strengths |-> draft.strengths,
    risks |-> draft.risks, recommendation |-> draft.recommendation, isPlaceholder |-> isPlaceholder ]

Summary(request, draft, generatedAt, isPlaceholder) ==
  [ applicantId |-> Get(request, <<"a", "p", "p", "l", "i", "c", "a", "n", "t", "I", "d">>).n, interviewId |-> Get(request, <<"i", "n", "t", "e", "r", "v", "i", "e", "w", "I", "d">>).n,
    generatedAt |-> generatedAt, overview |-> draft.overview,
    strengths |-> IF draft.strengths = <<>> THEN <<GenericStrength>> ELSE draft.strengths,
    risks |-> draft.risks, recommendation |-> draft.recommendation, isPlaceholder |-> isPlaceholder ]

\* a request arrives with the credential of its caller; the configuration is
\* read at call time
Receive(request, broken, subject, key) ==
  /\ gw = GatewayIdle
  /\ gw' = [ state |-> "Validating", request |-> request, broken |-> broken, subject |-> subject,
             key |-> key, trail |-> <<"Validating">>, violations |-> <<>>, response |-> NoReply ]
  /\ UNCHANGED outsideGateway

\* the gateway moves to a state
Goto(state) == [gw EXCEPT !.state = state, !.trail = Append(@, state)]

Validate ==
  /\ gw.state = "Validating"
  /\ LET violations == SchemaViolations(gw.request) IN
     gw' = [Goto(IF violations = <<>> THEN "Valid" ELSE "Invalid") EXCEPT !.violations = violations]
  /\ UNCHANGED outsideGateway

RejectInvalid ==
  /\ gw.state = "Invalid"
  /\ gw' = [Goto("ErrorResponding") EXCEPT
              !.response = ErrorResponse(400, "VALIDATION_ERROR", <<"R", "e", "q", "u", "e", "s", "t", " ", "b", "o", "d", "y", " ", "f", "a", "i", "l", "e", "d", " ", "v", "a", "l", "i", "d", "a", "t", "i", "o", "n">>,
                                         gw.violations)]
  /\ UNCHANGED outsideGateway

\* the identity check, then the choice of the generation branch
CheckIdentity ==
  /\ gw.state = "Valid"
  /\ gw' = IF ~IdentityMatches(gw.request, gw.subject)
           THEN [Goto("ErrorResponding") EXCEPT
                   !.response = ErrorResponse(403, "FORBIDDEN",
                                              <<"U", "s", "e", "r", "n", "a", "m", "e", " ", "d", "o", "e", "s", " ", "n", "o", "t", " ", "m", "a", "t", "c", "h", " ", "t", "h", "e", " ", "a", "u", "t", "h", "e", "n", "t", "i", "c", "a", "t", "e", "d", " ", "i", "d", "e", "n", "t", "i", "t", "y">>, <<>>)]
           ELSE IF KeyConfigured(gw.key) THEN Goto("LiveGeneration")
           ELSE Goto("PlaceholderGeneration")
  /\ UNCHANGED outsideGateway

GeneratePlaceholder ==
  /\ gw.state = "PlaceholderGeneration"
  /\ gw' = [Goto("Responding") EXCEPT
              !.response = SummaryResponse(Summary(gw.request, PlaceholderDraft, SyntheticTimestamp, TRUE))]
  /\ UNCHANGED outsideGateway

\* the provider answers with a draft at a time of the clock
LiveSucceeds(draft, now) ==
  /\ gw.state = "LiveGeneration"
  /\ gw' = [Goto("Responding") EXCEPT
              !.response = SummaryResponse(Summary(gw.request, draft, now, FALSE))]
  /\ UNCHANGED outsideGateway

\* the provider fails: an error, a rate-limit signal, or nothing reachable
LiveFails(signal) ==
  /\ gw.state = "LiveGeneration"
  /\ gw' = [Goto("ErrorResponding") EXCEPT
              !.response =
                 CASE signal = "throttled" ->
                        ErrorResponse(429, "RATE_LIMITED", <<"R", "a", "t", "e", " ", "l", "i", "m", "i", "t", " ", "e", "x", "c", "e", "e", "d", "e", "d">>, <<>>)
                   [] signal = "unreachable" ->
                        ErrorResponse(503, "SERVICE_UNAVAILABLE", <<"S", "u", "m", "m", "a", "r", "y", " ", "s", "e", "r", "v", "i", "c", "e", " ", "i", "s", " ", "o", "f", "f", "l", "i", "n", "e">>, <<>>)
                   [] OTHER ->
                        ErrorResponse(500, "GENAI_UPSTREAM", <<"S", "u", "m", "m", "a", "r", "y", " ", "g", "e", "n", "e", "r", "a", "t", "i", "o", "n", " ", "f", "a", "i", "l", "e", "d">>, <<>>)]
  /\ UNCHANGED outsideGateway

\* the response is sent; the gateway keeps nothing of the request
Respond ==
  /\ gw.state \in {"Responding", "ErrorResponding"}
  /\ gw' = GatewayIdle
  /\ UNCHANGED outsideGateway

\* the requests: the example payload of the contract, with a declared
\* username, and the ways of breaking it
Answer(questionId, question, answer, transcript, durationSeconds) ==
  JsObj(<< Prop(<<"q", "u", "e", "s", "t", "i", "o", "n", "I", "d">>, JsNum(questionId)), Prop(<<"q", "u", "e", "s", "t", "i", "o", "n">>, JsStr(question)),
           Prop(<<"a", "n", "s", "w", "e", "r">>, answer), Prop(<<"t", "r", "a", "n", "s", "c", "r", "i", "p", "t">>, transcript),
           Prop(<<"d", "u", "r", "a", "t", "i", "o", "n", "S", "e", "c", "o", "n", "d", "s">>, JsNum(durationSeconds)) >>)

ExampleRequest(username) ==
  JsObj(<< Prop(<<"u", "s", "e", "r", "n", "a", "m", "e">>, JsStr(username)),
           Prop(<<"a", "p", "p", "l", "i", "c", "a", "n", "t", "I", "d">>, JsNum(42)),
           Prop(<<"i", "n", "t", "e", "r", "v", "i", "e", "w", "I", "d">>, JsNum(17)),
           Prop(<<"a", "p", "p", "l", "i", "c", "a", "n", "t", "N", "a", "m", "e">>,
                JsObj(<< Prop(<<"t", "i", "t", "l", "e">>, JsStr(<<"M", "s">>)), Prop(<<"f", "i", "r", "s", "t">>, JsStr(<<"A", "s", "h", "a">>)),
                         Prop(<<"l", "a", "s", "t">>, JsStr(<<"S", "i", "n", "g", "h">>)) >>)),
           Prop(<<"j", "o", "b", "R", "o", "l", "e">>, JsStr(<<"F", "r", "o", "n", "t", "-", "e", "n", "d", " ", "D", "e", "v", "e", "l", "o", "p", "e", "r">>)),
           Prop(<<"a", "n", "s", "w", "e", "r", "s">>,
                JsArr(<< Answer(301, <<"E", "x", "p", "l", "a", "i", "n", " ", "e", "v", "e", "n", "t", " ", "d", "e", "l", "e", "g", "a", "t", "i", "o", "n", ".">>, JsStr(<<"I", "t", " ", "b", "u", "b", "b", "l", "e", "s", ".">>),
                                JsStr(<<"R", "e", "a", "c", "t", " ", "u", "s", "e", "s", " ", "s", "y", "n", "t", "h", "e", "t", "i", "c", " ", "e", "v", "e", "n", "t", "s">>), 118),
                         Answer(302, <<"H", "o", "w", " ", "d", "o", " ", "y", "o", "u", " ", "e", "n", "s", "u", "r", "e", " ", "a", "c", "c", "e", "s", "s", "i", "b", "i", "l", "i", "t", "y", "?">>, JsNull,
                                JsStr(<<"D", "e", "s", "c", "r", "i", "p", "t", "i", "v", "e", " ", "l", "a", "b", "e", "l", "s">>), 96) >>)),
           Prop(<<"s", "k", "i", "l", "l", "s", "S", "u", "m", "m", "a", "r", "y">>, JsStr(<<"5", " ", "y", "e", "a", "r", "s", " ", "R", "e", "a", "c", "t">>)) >>)

Breakages == {"noApplicantId", "zeroInterviewId", "numericJobRole", "negativeDuration"}

\* the path of the field a breakage breaks
PathOf(b) ==
  CASE b = "noApplicantId" -> <<JsStr(<<"a", "p", "p", "l", "i", "c", "a", "n", "t", "I", "d">>)>>
    [] b = "zeroInterviewId" -> <<JsStr(<<"i", "n", "t", "e", "r", "v", "i", "e", "w", "I", "d">>)>>
    [] b = "numericJobRole" -> <<JsStr(<<"j", "o", "b", "R", "o", "l", "e">>)>>
    [] b = "negativeDuration" -> <<JsStr(<<"a", "n", "s", "w", "e", "r", "s">>), JsNum(1), JsStr(<<"d", "u", "r", "a", "t", "i", "o", "n", "S", "e", "c", "o", "n", "d", "s">>)>>

Without(entries, k) == SelectSeq(entries, LAMBDA p : p.k # k)

Broken(request, broken) ==
  LET r1 == IF "noApplicantId" \in broken
            THEN Without(request.entries, <<"a", "p", "p", "l", "i", "c", "a", "n", "t", "I", "d">>) ELSE request.entries
      r2 == IF "zeroInterviewId" \in broken THEN SetProp(r1, <<"i", "n", "t", "e", "r", "v", "i", "e", "w", "I", "d">>, JsNum(0)) ELSE r1
      r3 == IF "numericJobRole" \in broken THEN SetProp(r2, <<"j", "o", "b", "R", "o", "l", "e">>, JsNum(7)) ELSE r2
      answers == Get(request, <<"a", "n", "s", "w", "e", "r", "s">>).items
      r4 == IF "negativeDuration" \in broken
            THEN SetProp(r3, <<"a", "n", "s", "w", "e", "r", "s">>,
                         JsArr([answers EXCEPT ![2] =
                                  JsObj(SetProp(@.entries, <<"d", "u", "r", "a", "t", "i", "o", "n", "S", "e", "c", "o", "n", "d", "s">>, JsNum(-1)))]))
            ELSE r3
  IN JsObj(r4)

Subjects == { <<"s", "1", "2", "3", "4", "5", "6", "7">>, <<"s", "7", "6", "5", "4", "3", "2", "1">> }

Keys == { Undefined, JsStr(<<>>), JsStr(<<"s", "k", "-", "l", "i", "v", "e", "-", "1">>) }

\* what the provider produces
Drafts ==
  { [ overview |-> <<"S", "t", "r", "o", "n", "g", " ", "R", "e", "a", "c", "t", " ", "k", "n", "o", "w", "l", "e", "d", "g", "e", ".">>, strengths |-> s, risks |-> <<>>,
      recommendation |-> <<"P", "r", "o", "c", "e", "e", "d", " ", "t", "o", " ", "t", "h", "e", " ", "n", "e", "x", "t", " ", "r", "o", "u", "n", "d", ".">> ] :
      s \in { <<>>, <<<<"C", "l", "e", "a", "r", " ", "c", "o", "m", "m", "u", "n", "i", "c", "a", "t", "i", "o", "n">>>> } }

Clock == { <<"2", "0", "2", "5", "-", "0", "3", "-", "0", "1", "T", "0", "9", ":", "3", "0", ":", "0", "0", ".", "0", "0", "0", "Z">> }

ProviderSignals == {"error", "throttled", "unreachable"}

GatewayNext ==
  \/ \E broken \in SUBSET Breakages, username \in Subjects, subject \in Subjects, key \in Keys :
       Receive(Broken(ExampleRequest(username), broken), broken, subject, key)
  \/ Validate
  \/ RejectInvalid
  \/ CheckIdentity
  \/ GeneratePlaceholder
  \/ \E draft \in Drafts, now \in Clock : LiveSucceeds(draft, now)
  \/ \E signal \in ProviderSignals : LiveFails(signal)
  \/ Respond

SpecGateway == Init /\ [][GatewayNext]_vars

(***************************************************************************)
(* The Questions page                                                      *)
(***************************************************************************)

\* variant: the search text is used as it was given
buildQuestionSearchParams_Untrimmed(options) ==
  LET search == << Prop(<<"o", "r", "d", "e", "r">>, JsStr(options.order)), Prop(<<"l", "i", "m", "i", "t">>, JsNum(options.pageSize)),
                   Prop(<<"o", "f", "f", "s", "e", "t">>, JsNum(options.page * options.pageSize)) >>
      filtered == IF options.interviewId # JsNull
                  THEN SetProp(search, <<"i", "n", "t", "e", "r", "v", "i", "e", "w", "_", "i", "d">>, JsStr(<<"e", "q", ".">> \o IntToText(options.interviewId.n)))
                  ELSE search
  IN JsObj(IF options.searchText # <<>>
           THEN SetProp(filtered, <<"q", "u", "e", "s", "t", "i", "o", "n">>, JsStr(<<"i", "l", "i", "k", "e", ".", "*">> \o options.searchText \o <<"*">>))
           ELSE filtered)

\* the search mapping of a list request
buildQuestionSearchParams(options) ==
  LET search == << Prop(<<"o", "r", "d", "e", "r">>, JsStr(options.order)), Prop(<<"l", "i", "m", "i", "t">>, JsNum(options.pageSize)),
                   Prop(<<"o", "f", "f", "s", "e", "t">>, JsNum(options.page * options.pageSize)) >>
      filtered == IF options.interviewId # JsNull
                  THEN SetProp(search, <<"i", "n", "t", "e", "r", "v", "i", "e", "w", "_", "i", "d">>, JsStr(<<"e", "q", ".">> \o IntToText(options.interviewId.n)))
                  ELSE search
      trimmedSearch == Trim(options.searchText)
  IN JsObj(IF trimmedSearch # <<>>
           THEN SetProp(filtered, <<"q", "u", "e", "s", "t", "i", "o", "n">>, JsStr(<<"i", "l", "i", "k", "e", ".", "*">> \o trimmedSearch \o <<"*">>))
           ELSE filtered)

\* buildQuestionSearchParams called on its own
CallBuild(options) ==
  /\ built = NotBuilt
  /\ built' = [built |-> TRUE, options |-> options, search |-> buildQuestionSearchParams(options)]
  /\ UNCHANGED <<qui, requests>>
  /\ UNCHANGED outsideQuestions

SearchIds == { JsNull, JsNum(0), JsNum(1), JsNum(12) }

SearchOrders == { <<"i", "d", ".", "a", "s", "c">>, <<"i", "d", ".", "d", "e", "s", "c">> }

SearchPages == 0..2

PageSizes == { 5, 10, 20 }

SearchTexts == { <<>>, <<" ">>, <<"l", "o", "o", "p">>, <<" ", "l", "o", "o", "p", " ">>, <<"a", " ", "b">>, <<"\t", "b", "\n">> }

SearchNext ==
  \E interviewId \in SearchIds, order \in SearchOrders, page \in SearchPages,
     pageSize \in PageSizes, searchText \in SearchTexts :
    CallBuild([ interviewId |-> interviewId, order |-> order, page |-> page,
                pageSize |-> pageSize, searchText |-> searchText ])

SpecSearch == Init /\ [][SearchNext]_vars

DIFFICULTY_OPTIONS == { <<"E", "a", "s", "y">>, <<"I", "n", "t", "e", "r", "m", "e", "d", "i", "a", "t", "e">>, <<"A", "d", "v", "a", "n", "c", "e", "d">> }

\* the state of the form: interview_id is a number or ''
QuestionForm(question, difficulty, interview_id) ==
  JsObj(<< Prop(<<"q", "u", "e", "s", "t", "i", "o", "n">>, JsStr(question)), Prop(<<"d", "i", "f", "f", "i", "c", "u", "l", "t", "y">>, JsStr(difficulty)),
           Prop(<<"i", "n", "t", "e", "r", "v", "i", "e", "w", "_", "i", "d">>, interview_id) >>)

\* selectedInterviewId ?? ''
OrBlank(v) == IF v.t \in {"null", "undefined"} THEN JsStr(<<>>) ELSE v

\* the errors object, as its properties in insertion order; Number(interview_id)
\* is NaN for no value the form holds but a text that is no number
validateQuestionForm(state) ==
  (IF Trim(Get(state, <<"q", "u", "e", "s", "t", "i", "o", "n">>).s) = <<>>
   THEN <<Prop(<<"q", "u", "e", "s", "t", "i", "o", "n">>, <<"Q", "u", "e", "s", "t", "i", "o", "n", " ", "p", "r", "o", "m", "p", "t", " ", "i", "s", " ", "r", "e", "q", "u", "i", "r", "e", "d", ".">>)>> ELSE <<>>)
  \o (IF Get(state, <<"d", "i", "f", "f", "i", "c", "u", "l", "t", "y">>).s \notin DIFFICULTY_OPTIONS
      THEN <<Prop(<<"d", "i", "f", "f", "i", "c", "u", "l", "t", "y">>, <<"S", "e", "l", "e", "c", "t", " ", "a", " ", "d", "i", "f", "f", "i", "c", "u", "l", "t", "y", " ", "l", "e", "v", "e", "l", ".">>)>> ELSE <<>>)
  \o (IF Get(state, <<"i", "n", "t", "e", "r", "v", "i", "e", "w", "_", "i", "d">>) = JsStr(<<>>) \/ Get(state, <<"i", "n", "t", "e", "r", "v", "i", "e", "w", "_", "i", "d">>).t # "number"
      THEN <<Prop(<<"i", "n", "t", "e", "r", "v", "i", "e", "w", "_", "i", "d">>, <<"S", "e", "l", "e", "c", "t", " ", "a", "n", " ", "i", "n", "t", "e", "r", "v", "i", "e", "w", ".">>)>> ELSE <<>>)

\* the useState values of the page at its first render
InitialQui(initialId) ==
  [ mounted |-> TRUE, selectedInterviewId |-> initialId, interviews |-> <<>>, questions |-> <<>>,
    page |-> 0, pageSize |-> 5, order |-> <<"i", "d", ".", "d", "e", "s", "c">>, searchInput |-> <<>>, searchText |-> <<>>,
    loading |-> FALSE, listError |-> JsNull, actionError |-> JsNull,
    formState |-> QuestionForm(<<>>, <<"E", "a", "s", "y">>, OrBlank(initialId)), formErrors |-> <<>>,
    editingId |-> JsNull, submitting |-> FALSE,
    prompt |-> JsNull ]    \* the id window.confirm is asking about, while it is open

\* window.confirm is open
QPrompting == qui.mounted /\ qui.prompt # JsNull

\* the page takes the events of its user
QInteractive == qui.mounted /\ qui.prompt = JsNull

\* what the loadQuestions of a render lists: the dependencies of its useCallback
LoadOptions(u) ==
  [ interviewId |-> u.selectedInterviewId, order |-> u.order, page |-> u.page,
    pageSize |-> u.pageSize, searchText |-> u.searchText ]

\* what a handler created in a render holds on to
Closure(u) == [ options |-> LoadOptions(u), editingId |-> u.editingId ]

\* a client call of the page: who awaits it, and with the values of which render
QCall(fn, id, arg, by, closure) ==
  [ fn |-> fn, id |-> id, arg |-> arg, by |-> by, closure |-> closure,
    state |-> "pending", value |-> Undefined ]

\* loadQuestions of a render, up to its await
LoadCall(by, closure) ==
  QCall("listQuestions", 0, buildQuestionSearchParams(closure.options), by, closure)

\* setLoading(true); setListError(null)
Loading(u) == [u EXCEPT !.loading = TRUE, !.listError = JsNull]

\* resetForm of a render whose selectedInterviewId is selected
resetForm(u, selected) ==
  [u EXCEPT !.formState = QuestionForm(<<>>, <<"E", "a", "s", "y">>, OrBlank(selected)),
            !.formErrors = <<>>, !.editingId = JsNull]

\* the effect on [isEditing, selectedInterviewId]
FormSynced(u0, u1) ==
  IF u1.editingId = JsNull
     /\ <<u0.editingId = JsNull, u0.selectedInterviewId>> # <<TRUE, u1.selectedInterviewId>>
  THEN [u1 EXCEPT !.formState = JsObj(SetProp(@.entries, <<"i", "n", "t", "e", "r", "v", "i", "e", "w", "_", "i", "d">>, OrBlank(u1.selectedInterviewId)))]
  ELSE u1

\* the mutations that will reload the list once they resolve
Reserved(reqs) ==
  Cardinality({ i \in 1..Len(reqs) : reqs[i].state = "pending" /\ reqs[i].fn # "listQuestions"
                                      /\ reqs[i].fn # "listInterviews" })

\* at most MaxRequests client calls are made by the page
MaxRequests == 4

\* a handler or a continuation has set the state u1 and made the calls given,
\* after the calls reqs: the page renders again and its effects run, the effect
\* on loadQuestions when one of its dependencies has changed
Commit(reqs, u1, calls) ==
  LET synced == FormSynced(qui, u1)
      reload == LoadOptions(qui) # LoadOptions(synced)
      u2 == IF reload THEN Loading(synced) ELSE synced
      next == reqs \o calls \o (IF reload THEN <<LoadCall("effect", Closure(u2))>> ELSE <<>>)
  IN /\ Len(next) + Reserved(next) <= MaxRequests
     /\ qui' = u2
     /\ requests' = next
     /\ UNCHANGED built
     /\ UNCHANGED outsideQuestions

\* the first render and its effects: loadInterviews, then loadQuestions
QMount(initialId) ==
  /\ qui = Unmounted
  /\ ui = Unmounted    \* the router renders one page at a time
  /\ qui' = Loading(InitialQui(initialId))
  /\ requests' = << QCall("listInterviews", 0, JsObj(<<Prop(<<"o", "r", "d", "e", "r">>, JsStr(<<"t", "i", "t", "l", "e", ".", "a", "s", "c">>))>>),
                          "interviews", Closure(InitialQui(initialId))),
                    LoadCall("effect", Closure(InitialQui(initialId))) >>
  /\ UNCHANGED built
  /\ UNCHANGED outsideQuestions

\* String(interview.id) of the interviews the selects offer
Offered(u) == { IntToText(Get(u.interviews[k], <<"i", "d">>).n) : k \in 1..Len(u.interviews) }

\* Number.parseInt(value, 10) of a select, null for no value and for NaN
ParsedId(value) ==
  IF value = <<>> THEN JsNull
  ELSE IF parseInt10(value) = JsNaN THEN JsNull ELSE parseInt10(value)

handleInterviewFilterChange(value) ==
  /\ QInteractive
  /\ value = <<>> \/ value \in Offered(qui)
  /\ Commit(requests, [qui EXCEPT !.selectedInterviewId = ParsedId(value), !.page = 0], <<>>)

\* variant: the page is kept
handlePageSizeChange_KeepsPage(value) ==
  /\ QInteractive
  /\ Commit(requests, [qui EXCEPT !.pageSize = parseInt10(value).n], <<>>)

handlePageSizeChange(value) ==
  /\ QInteractive
  /\ Commit(requests, [qui EXCEPT !.pageSize = parseInt10(value).n, !.page = 0], <<>>)

handleOrderChange(value) ==
  /\ QInteractive
  /\ Commit(requests, [qui EXCEPT !.order = IF value = <<"i", "d", ".", "a", "s", "c">> THEN <<"i", "d", ".", "a", "s", "c">> ELSE <<"i", "d", ".", "d", "e", "s", "c">>,
                                  !.page = 0], <<>>)

handleSearchInputChange(value) ==
  /\ QInteractive
  /\ Commit(requests, [qui EXCEPT !.searchInput = value], <<>>)

handleSearchSubmit ==
  /\ QInteractive
  /\ Commit(requests, [qui EXCEPT !.page = 0, !.searchText = Trim(qui.searchInput)], <<>>)

\* the pages the model turns to
MaxPage == 2

\* the Next button: enabled when canGoForward
GoNext ==
  /\ QInteractive
  /\ Len(qui.questions) = qui.pageSize
  /\ qui.page < MaxPage
  /\ Commit(requests, [qui EXCEPT !.page = @ + 1], <<>>)

\* the Previous button: enabled when canGoBack
GoPrevious ==
  /\ QInteractive
  /\ qui.page > 0
  /\ Commit(requests, [qui EXCEPT !.page = IF @ - 1 > 0 THEN @ - 1 ELSE 0], <<>>)

\* the Retry button of the list error calls the loadQuestions of the render
Retry ==
  /\ QInteractive
  /\ qui.listError # JsNull
  /\ ~qui.loading
  /\ Commit(requests, Loading(qui), <<LoadCall("retry", Closure(qui))>>)

\* handleInputChange of the form: the interview select offers the interviews loaded
QHandleInputChange(name, value) ==
  /\ QInteractive
  /\ name = <<"i", "n", "t", "e", "r", "v", "i", "e", "w", "_", "i", "d">> => value \in Offered(qui)
  /\ Commit(requests,
            [qui EXCEPT !.formState =
               JsObj(SetProp(@.entries, name,
                             IF name = <<"i", "n", "t", "e", "r", "v", "i", "e", "w", "_", "i", "d">>
                             THEN (IF value = <<>> \/ parseInt10(value) = JsNaN
                                   THEN JsStr(<<>>) ELSE parseInt10(value))
                             ELSE JsStr(value)))],
            <<>>)

\* handleEdit of the k-th row shown (the table is rendered when not loading)
QHandleEdit(k) ==
  /\ QInteractive
  /\ ~qui.loading
  /\ k \in 1..Len(qui.questions)
  /\ Commit(requests,
            [qui EXCEPT !.editingId = Get(qui.questions[k], <<"i", "d">>), !.formErrors = <<>>,
                        !.formState = QuestionForm(Get(qui.questions[k], <<"q", "u", "e", "s", "t", "i", "o", "n">>).s,
                                                   Get(qui.questions[k], <<"d", "i", "f", "f", "i", "c", "u", "l", "t", "y">>).s,
                                                   Get(qui.questions[k], <<"i", "n", "t", "e", "r", "v", "i", "e", "w", "_", "i", "d">>))],
            <<>>)

\* handleCancelEdit: the Cancel button exists while editing and is disabled
\* while submitting
QHandleCancelEdit ==
  /\ QInteractive
  /\ qui.editingId # JsNull
  /\ ~qui.submitting
  /\ Commit(requests, resetForm(qui, qui.selectedInterviewId), <<>>)

\* the Delete button of the k-th row shown, disabled while submitting:
\* handleDelete opens window.confirm
QHandleDelete(k) ==
  /\ QInteractive
  /\ ~qui.loading
  /\ ~qui.submitting
  /\ k \in 1..Len(qui.questions)
  /\ Commit(requests, [qui EXCEPT !.prompt = Get(qui.questions[k], <<"i", "d">>)], <<>>)

\* window.confirm returns: handleDelete returns, or runs up to its first await
QAnswerPrompt(confirmed) ==
  /\ QPrompting
  /\ IF ~confirmed
     THEN Commit(requests, [qui EXCEPT !.prompt = JsNull], <<>>)
     ELSE Commit(requests,
                 [qui EXCEPT !.prompt = JsNull, !.submitting = TRUE, !.actionError = JsNull],
                 <<QCall("deleteQuestion", qui.prompt.n, Undefined, "delete", Closure(qui))>>)

\* { question: formState.question.trim(), difficulty, interview_id: Number(...) }
QuestionPayload(formState) ==
  JsObj(<< Prop(<<"q", "u", "e", "s", "t", "i", "o", "n">>, JsStr(Trim(Get(formState, <<"q", "u", "e", "s", "t", "i", "o", "n">>).s))),
           Prop(<<"d", "i", "f", "f", "i", "c", "u", "l", "t", "y">>, Get(formState, <<"d", "i", "f", "f", "i", "c", "u", "l", "t", "y">>)),
           Prop(<<"i", "n", "t", "e", "r", "v", "i", "e", "w", "_", "i", "d">>, Get(formState, <<"i", "n", "t", "e", "r", "v", "i", "e", "w", "_", "i", "d">>)) >>)

\* handleSubmit, up to its return or its first await; the submit button is
\* disabled while submitting
QHandleSubmit ==
  /\ QInteractive
  /\ ~qui.submitting
  /\ LET validation == validateQuestionForm(qui.formState) IN
     IF HasErrors(validation)
     THEN Commit(requests, [qui EXCEPT !.actionError = JsNull, !.formErrors = validation], <<>>)
     ELSE IF qui.editingId # JsNull
     THEN Commit(requests,
                 [qui EXCEPT !.actionError = JsNull, !.formErrors = validation, !.submitting = TRUE],
                 <<QCall("updateQuestion", qui.editingId.n, QuestionPayload(qui.formState),
                         "submit", Closure(qui))>>)
     ELSE Commit(requests,
                 [qui EXCEPT !.actionError = JsNull, !.formErrors = validation, !.submitting = TRUE,
                             !.page = 0],
                 <<QCall("createQuestion", 0, QuestionPayload(qui.formState),
                         "submit", Closure(qui))>>)

\* what the client functions resolve to
Q_row(n) ==
  JsObj(<< Prop(<<"i", "d">>, JsNum(n)), Prop(<<"q", "u", "e", "s", "t", "i", "o", "n">>, JsStr(<<"W", "h", "y">>)),
           Prop(<<"d", "i", "f", "f", "i", "c", "u", "l", "t", "y">>, JsStr(<<"E", "a", "s", "y">>)), Prop(<<"i", "n", "t", "e", "r", "v", "i", "e", "w", "_", "i", "d">>, JsNum(1)) >>)

Q_five == JsArr(<<Q_row(1), Q_row(2), Q_row(3), Q_row(4), Q_row(5)>>)

Q_one == JsArr(<<Q_row(6)>>)

QuestionPayloads == { Q_five, Q_one, JsStr(T_html) }

QResultsOf(fn) ==
  CASE fn = "listQuestions" -> QuestionPayloads
    [] fn = "listInterviews" -> { JsArr(<<I_one>>), JsNull }
    [] fn = "deleteQuestion" -> { JsNull }
    [] OTHER -> { JsArr(<<Q_row(6)>>) }

AllQResults == QuestionPayloads \cup { JsArr(<<I_one>>), JsNull, JsArr(<<Q_row(6)>>) }

\* the error loadQuestions throws for a payload that is no array
QNotArrayError(payload) ==
  JsError("Error",
          <<"U", "n", "a", "b", "l", "e", " ", "t", "o", " ", "l", "o", "a", "d", " ", "q", "u", "e", "s", "t", "i", "o", "n", "s", ":", " ", "e", "x", "p", "e", "c", "t", "e", "d", " ", "a", "n", " ", "a", "r", "r", "a", "y", " ", "r", "e", "s", "p", "o", "n", "s", "e", " ", "f", "r", "o", "m", " ", "t", "h", "e", " ", "A", "P", "I", ".", " ", "R", "e", "c", "e", "i", "v", "e", "d", ":", " ">>
            \o Slice0(IF payload.t = "string" THEN payload.s ELSE JSONStringify(payload), 120))

\* loadQuestions after its await, then the handler that awaited it: handleSubmit
\* resets the form, and it and handleDelete end in their finally block
AfterList(r, shown) ==
  LET loaded == [shown EXCEPT !.loading = FALSE] IN
  CASE r.by = "submit" -> [resetForm(loaded, r.closure.options.interviewId) EXCEPT !.submitting = FALSE]
    [] r.by = "delete" -> [loaded EXCEPT !.submitting = FALSE]
    [] OTHER -> loaded

\* setActionError((prev) => prev ?? message)
KeepOr(prev, message) == IF prev = JsNull THEN JsStr(message) ELSE prev

\* the i-th call of the page resolves: what awaited it runs to its next await or its end
QResolves(i, value) ==
  /\ qui.mounted
  /\ ~QPrompting
  /\ i \in 1..Len(requests)
  /\ requests[i].state = "pending"
  /\ value \in QResultsOf(requests[i].fn)
  /\ LET r == requests[i]
         settled == [requests EXCEPT ![i].state = "resolved", ![i].value = value]
     IN CASE r.fn = "listInterviews" ->
               Commit(settled,
                      IF value.t = "array" THEN [qui EXCEPT !.interviews = value.items]
                      ELSE [qui EXCEPT !.actionError =
                              KeepOr(@, <<"I", "n", "t", "e", "r", "v", "i", "e", "w", " ", "l", "i", "s", "t", " ", "r", "e", "s", "p", "o", "n", "s", "e", " ", "w", "a", "s", " ", "n", "o", "t", " ", "a", "n", " ", "a", "r", "r", "a", "y", ".">>)],
                      <<>>)
          [] r.fn = "listQuestions" ->
               Commit(settled,
                      AfterList(r, IF value.t = "array" THEN [qui EXCEPT !.questions = value.items]
                                      ELSE [qui EXCEPT !.listError = JsStr(QNotArrayError(value).message)]),
                      <<>>)
          [] r.fn = "deleteQuestion" ->
               Commit(settled,
                      Loading(IF r.closure.editingId = JsNum(r.id)
                              THEN resetForm(qui, r.closure.options.interviewId) ELSE qui),
                      <<LoadCall("delete", r.closure)>>)
          [] OTHER ->
               Commit(settled, Loading(qui), <<LoadCall("submit", r.closure)>>)

\* the i-th call of the page rejects
QRejects(i, error) ==
  /\ qui.mounted
  /\ ~QPrompting
  /\ i \in 1..Len(requests)
  /\ requests[i].state = "pending"
  /\ LET r == requests[i]
         settled == [requests EXCEPT ![i].state = "rejected", ![i].value = JsStr(error.message)]
     IN CASE r.fn = "listInterviews" ->
               Commit(settled, [qui EXCEPT !.actionError = KeepOr(@, error.message)], <<>>)
          [] r.fn = "listQuestions" ->
               Commit(settled, AfterList(r, [qui EXCEPT !.listError = JsStr(error.message)]), <<>>)
          [] OTHER ->
               Commit(settled, [qui EXCEPT !.actionError = JsStr(error.message), !.submitting = FALSE],
                      <<>>)

\* The list of the Questions page: its filter, order, page size, search and
\* pagination, with the responses of the list requests in every order.
QuestionsNext ==
  \/ QMount(JsNull)
  \/ \E value \in { <<>>, <<"1">> } : handleInterviewFilterChange(value)
  \/ \E value \in { <<"5">>, <<"1", "0">> } : handlePageSizeChange(value)
  \/ \E value \in { <<"i", "d", ".", "a", "s", "c">>, <<"i", "d", ".", "d", "e", "s", "c">> } : handleOrderChange(value)
  \/ \E value \in { <<" ", "l", "o", "o", "p", " ">> } : handleSearchInputChange(value)
  \/ handleSearchSubmit
  \/ GoNext
  \/ GoPrevious
  \/ Retry
  \/ \E i \in 1..MaxRequests, v \in AllQResults : QResolves(i, v)
  \/ \E i \in 1..MaxRequests, e \in ApiErrors : QRejects(i, e)

SpecQuestions == Init /\ [][QuestionsNext]_vars

\* The form and the rows of the Questions page: creating, editing and deleting
\* a question.
QuestionRowsNext ==
  \/ QMount(JsNull)
  \/ \E value \in { <<" ">>, <<"W", "h", "y">> } : QHandleInputChange(<<"q", "u", "e", "s", "t", "i", "o", "n">>, value)
  \/ \E value \in { <<"1">> } : QHandleInputChange(<<"i", "n", "t", "e", "r", "v", "i", "e", "w", "_", "i", "d">>, value)
  \/ QHandleSubmit
  \/ \E k \in 1..1 : QHandleEdit(k)
  \/ QHandleCancelEdit
  \/ \E k \in 1..1 : QHandleDelete(k)
  \/ \E confirmed \in BOOLEAN : QAnswerPrompt(confirmed)
  \/ \E i \in 1..MaxRequests, v \in AllQResults : QResolves(i, v)
  \/ \E i \in 1..MaxRequests, e \in ApiErrors : QRejects(i, e)

\* The forms and the rows of the two pages; the router shows one page at a time.
PagesNext == RowsNext \/ QuestionRowsNext

SpecPages == Init /\ [][PagesNext]_vars

(***************************************************************************)
(* Properties                                                              *)
(***************************************************************************)

\* the fetch call of the invocation under way
Sent == fetchLog[1]

\* a POST or PATCH invocation is under way or has settled
Mutating == pc # "idle" /\ MethodOf(call.init) \in JSON_METHODS

\* the transmitted body is JSON text
SentIsJson == Sent.body.t = "string" /\ JSONParse(Sent.body.s).ok

\* the transmitted body, parsed
SentJson == JSONParse(Sent.body.s).v

\* the invocation has settled on an HTTP response
Answered == pc = "settled" /\ response.kind = "http"

Succeeded == Answered /\ ResponseOk(response)

Failed == Answered /\ ~ResponseOk(response)

C2_CallerIdentityKept ==
  (Mutating /\ isRecord(call.init.body) /\ Get(call.init.body, K_username) # Undefined) =>
    /\ SentIsJson
    /\ HasKey(SentJson.entries, K_username)
    /\ Get(SentJson, K_username) = Get(call.init.body, K_username)
    /\ Get(SentJson, K_username) # JsStr(USERNAME)

C2_Witness ==
  /\ pc = "inflight"
  /\ call.fn = "createApplicant"
  /\ call.init.body = R_named
  /\ Sent.body = JsStr(<<"{", "\"", "u", "s", "e", "r", "n", "a", "m", "e", "\"", ":", "\"", "c", "u", "s", "t", "o", "m", "-", "u", "s", "e", "r", "\"", ",", "\"", "t", "i", "t", "l", "e", "\"", ":", "\"", "D", "e", "v", " ", "\\", "\"", "A", "\\", "\"", "\"", ",", "\"", "s", "t", "a", "t", "u", "s", "\"", ":", "\"", "D", "r", "a", "f", "t", "\"", "}">>)

\* C3: every POST or PATCH request carries an identity in its body, whatever the
\* body argument: the transmitted body is JSON with a username property holding
\* the caller's own username value or the configured USERNAME.
C3_EveryMutationCarriesIdentity ==
  Mutating =>
    /\ SentIsJson
    /\ SentJson.t = "object"
    /\ HasKey(SentJson.entries, K_username)
    /\ \/ Get(SentJson, K_username) = JsStr(USERNAME)
       \/ /\ isRecord(call.init.body)
          /\ HasKey(call.init.body.entries, K_username)
          /\ Get(SentJson, K_username) = Get(call.init.body, K_username)

\* C4: a response whose status is not a success makes apiRequest reject with an
\* error whose message holds the status code and the first ERROR_SNIPPET_LENGTH
\* characters of the raw body (all of it when shorter); the body is not parsed as
\* JSON whatever the content type, and an empty failed body rejects too.
C4_FailureCarriesStatusAndSnippet ==
  Failed =>
    /\ apiOutcome.kind = "rejected"
    /\ apiOutcome.error.message =
         <<"R", "e", "q", "u", "e", "s", "t", " ", "f", "a", "i", "l", "e", "d", " ", "w", "i", "t", "h", " ", "s", "t", "a", "t", "u", "s", " ">> \o IntToText(response.status) \o <<":", " ">>
           \o [i \in 1..Min(Len(response.text), ERROR_SNIPPET_LENGTH) |-> response.text[i]]
    /\ ~jsonParsed

C4_Witness ==
  /\ Failed
  /\ response.status = 500
  /\ response.contentType = JsStr(CT_json)
  /\ Len(response.text) = ERROR_SNIPPET_LENGTH + 1
  /\ Len(apiOutcome.error.message) = Len(<<"R", "e", "q", "u", "e", "s", "t", " ", "f", "a", "i", "l", "e", "d", " ", "w", "i", "t", "h", " ", "s", "t", "a", "t", "u", "s", " ", "5", "0", "0", ":", " ">>) + ERROR_SNIPPET_LENGTH

\* C5: an invocation makes exactly one fetch call, on the success path and on the
\* failure path alike (no retry), and settles exactly once: a client call that
\* fails rejects with one error.
C5_OneFetchPerInvocation ==
  /\ pc = "idle" => Len(fetchLog) = 0
  /\ pc # "idle" => Len(fetchLog) = 1
  /\ pc = "inflight" => outcome = Pending /\ apiOutcome = Pending
  /\ pc = "settled" => outcome.kind \in {"resolved", "rejected"}
  /\ (pc = "settled" /\ call.fn \notin CountFns) => outcome = apiOutcome
  /\ (pc = "settled" /\ ~Succeeded) => apiOutcome.kind = "rejected"

C5_Witness ==
  /\ Failed
  /\ call.fn = "deleteQuestion"
  /\ Len(fetchLog) = 1
  /\ outcome.kind = "rejected"

\* C6: a count helper resolves to 0 when its read fails with the backend's
\* "no matching rows" report (status 404, body saying the results contain 0 rows).
C6_CountZeroOnNoRows ==
  (Failed /\ call.fn \in CountFns /\ response.status = 404 /\ response.text = T_noRows) =>
    outcome = Resolved(JsNum(0))

C6_Witness ==
  /\ Failed
  /\ call.fn = "countQuestionsForInterview"
  /\ response.status = 404
  /\ response.text = T_noRows
  /\ outcome = Resolved(JsNum(0))

\* C7: for every failure of the read other than the "no matching rows" report
\* (any other status whatever its body, a 404 with another body, a network or
\* decoding exception) the count helper rejects with the error apiRequest raised.
C7_OtherFailuresPropagate ==
  ( /\ pc = "settled"
    /\ call.fn \in CountFns
    /\ apiOutcome.kind = "rejected"
    /\ ~(response.kind = "http" /\ response.status = 404 /\ response.text = T_noRows) ) =>
    outcome = Rejected(apiOutcome.error)

\* C8: every fetch carries Authorization: Bearer <JWT> and Content-Type:
\* application/json; Prefer: return=representation is present exactly when the
\* method is POST or PATCH.
C8_Headers ==
  pc # "idle" =>
    /\ Sent.headers =
         IF Sent.method \in {"POST", "PATCH"}
         THEN << Prop("Authorization", <<"B", "e", "a", "r", "e", "r", " ", "Y", "O", "U", "R", " ", "T", "O", "K", "E", "N", " ", "H", "E", "R", "E">>),
                 Prop("Content-Type", <<"a", "p", "p", "l", "i", "c", "a", "t", "i", "o", "n", "/", "j", "s", "o", "n">>),
                 Prop("Prefer", <<"r", "e", "t", "u", "r", "n", "=", "r", "e", "p", "r", "e", "s", "e", "n", "t", "a", "t", "i", "o", "n">>) >>
         ELSE << Prop("Authorization", <<"B", "e", "a", "r", "e", "r", " ", "Y", "O", "U", "R", " ", "T", "O", "K", "E", "N", " ", "H", "E", "R", "E">>),
                 Prop("Content-Type", <<"a", "p", "p", "l", "i", "c", "a", "t", "i", "o", "n", "/", "j", "s", "o", "n">>) >>
    /\ Sent.method \in {"GET", "POST", "PATCH", "DELETE"}

C8_Witness ==
  /\ pc = "inflight"
  /\ call.fn = "deleteApplicantAnswer"
  /\ Sent.method = "DELETE"
  /\ ~HasKey(Sent.headers, "Prefer")
  /\ HasKey(Sent.headers, "Authorization")

\* the media type a content-type header declares: the text before its parameters
MediaTypeOf(contentType) ==
  IF \E i \in 1..Len(contentType) : contentType[i] = ";"
  THEN SubSeq(contentType, 1, (CHOOSE i \in 1..Len(contentType) :
                                 /\ contentType[i] = ";"
                                 /\ \A j \in 1..(i - 1) : contentType[j] # ";") - 1)
  ELSE contentType

\* C9 as stated: a successful response resolves to null when the body is empty,
\* to the JSON-parsed value when the body is non-empty and the declared content
\* type is application/json, and to the raw text for every other declared or
\* missing content type.
C9_SuccessDecoding ==
  Succeeded =>
    IF response.text = <<>> THEN apiOutcome = Resolved(JsNull)
    ELSE IF MediaTypeOf(ContentTypeOf(response)) = CT_json
    THEN /\ apiOutcome.kind = "resolved"
         /\ JSONParse(response.text).ok
         /\ apiOutcome.value = JSONParse(response.text).v
    ELSE apiOutcome = Resolved(JsStr(response.text))

\* C9 amended: a successful response resolves to null when the body is empty;
\* when the body is non-empty and the content-type header contains the text
\* application/json it resolves to the JSON-parsed value if the body is valid
\* JSON and rejects with the parser's SyntaxError if it is not; when the header is
\* missing or does not contain that text it resolves to the unmodified raw text.
C9_SuccessDecodingAmended ==
  Succeeded =>
    IF response.text = <<>> THEN apiOutcome = Resolved(JsNull)
    ELSE IF response.contentType.t = "string" /\ Includes(response.contentType.s, CT_json)
    THEN IF JSONParse(response.text).ok
         THEN apiOutcome = Resolved(JSONParse(response.text).v)
         ELSE apiOutcome.kind = "rejected" /\ apiOutcome.error.name = "SyntaxError"
    ELSE apiOutcome = Resolved(JsStr(response.text))

C9_Witness ==
  /\ Succeeded
  /\ response.contentType = JsStr(CT_json)
  /\ response.text = T_html
  /\ apiOutcome.kind = "rejected"
  /\ apiOutcome.error.name = "SyntaxError"

\* string counts up to MaxCount are compared with their decimal notation
MaxCount == 20

\* the count property of the first row of a resolved array result
FirstCount == Get(apiOutcome.value.items[1], <<"c", "o", "u", "n", "t">>)

\* C10: a count helper issues one GET on its resource path whose query is the
\* caller's filter followed by select=count; on success it resolves to the count
\* of the first row: a number as it is, a string as the integer it denotes in
\* base 10.
C10_CountRequestAndResult ==
  (pc # "idle" /\ call.fn \in CountFns) =>
    /\ Len(fetchLog) = 1
    /\ Sent.method = "GET"
    /\ Sent.body = Undefined
    /\ Sent.url = API_BASE
                    \o (IF call.fn = "countQuestionsForInterview"
                        THEN <<"/", "q", "u", "e", "s", "t", "i", "o", "n">> ELSE <<"/", "a", "p", "p", "l", "i", "c", "a", "n", "t">>)
                    \o <<"?", "i", "n", "t", "e", "r", "v", "i", "e", "w", "_", "i", "d", "=", "e", "q", ".">> \o IntToText(call.id) \o <<"&", "s", "e", "l", "e", "c", "t", "=", "c", "o", "u", "n", "t">>
    /\ ( /\ pc = "settled"
         /\ apiOutcome.kind = "resolved"
         /\ apiOutcome.value.t = "array"
         /\ Len(apiOutcome.value.items) > 0 ) =>
         /\ FirstCount.t = "number" => outcome = Resolved(FirstCount)
         /\ FirstCount.t = "string" =>
              \A n \in 0..MaxCount :
                IntToText(n) = FirstCount.s => outcome = Resolved(JsNum(n))

C10_Witness ==
  /\ Succeeded
  /\ call.fn = "countApplicantsForInterview"
  /\ call.id = 2
  /\ response.text = T_count12
  /\ outcome = Resolved(JsNum(12))


\* a query has been built from a mapping that holds at least one parameter
BuiltFromParams ==
  queryOut # NotBuilt /\ searchArg.t = "object" /\ Len(searchArg.entries) > 0

\* the name/value pairs a server decodes from the query built
Decoded == URLSearchParams(Tail(queryOut.text))

\* C11: for a mapping that holds at least one parameter buildQuery returns a text
\* that starts with "?" and whose remainder, decoded as URL search parameters,
\* gives for every name of the mapping the string form of its value (a string as
\* it is, a number in decimal notation, a boolean as true or false); for an
\* empty or absent mapping it returns the empty text.
C11_QueryRoundTrip ==
  queryOut # NotBuilt =>
    IF BuiltFromParams
    THEN /\ Len(queryOut.text) >= 1
         /\ queryOut.text[1] = "?"
         /\ \A i \in 1..Len(searchArg.entries) :
              ParamsGet(Decoded, searchArg.entries[i].k) =
                (LET v == searchArg.entries[i].v IN
                 CASE v.t = "string" -> v
                   [] v.t = "number" -> JsStr(IntToText(v.n))
                   [] v.t = "boolean" -> JsStr(IF v.b THEN <<"t", "r", "u", "e">> ELSE <<"f", "a", "l", "s", "e">>))
    ELSE queryOut.text = <<>>

C11_Witness ==
  /\ BuiltFromParams
  /\ searchArg.entries = <<Prop(<<"a", "&", "b", " ", "c">>, JsStr(<<"a", "+", "b", "&", "c", "=", "d">>)), Prop(<<"l", "i", "m", "i", "t">>, JsNum(10))>>
  /\ queryOut.text = <<"?", "a", "%", "2", "6", "b", "%", "2", "0", "c", "=", "a", "%", "2", "B", "b", "%", "2", "6", "c", "%", "3", "D", "d", "&", "l", "i", "m", "i", "t", "=", "1", "0">>
  /\ ParamsGet(Decoded, <<"a", "&", "b", " ", "c">>) = JsStr(<<"a", "+", "b", "&", "c", "=", "d">>)

\* C12 as stated: the pairs of the query are in the insertion order of the
\* mapping, whatever the parameter names are.
C12_InsertionOrder ==
  BuiltFromParams =>
    /\ Len(Decoded) = Len(searchArg.entries)
    /\ \A i \in 1..Len(searchArg.entries) : Decoded[i].name = searchArg.entries[i].k

\* C12 amended: the query holds one pair for each parameter of the mapping, in
\* the order in which Object.entries enumerates the mapping: the names that are
\* array indices (canonical decimal integers) first, in ascending numeric order,
\* then the other names in insertion order.
C12_EnumerationOrder ==
  BuiltFromParams =>
    /\ Len(Decoded) = Len(searchArg.entries)
    /\ \A i \in 1..Len(searchArg.entries) :
         \E j \in 1..Len(Decoded) : Decoded[j].name = searchArg.entries[i].k
    /\ \A i, j \in 1..Len(Decoded) :
         i < j =>
           LET a == Decoded[i].name
               b == Decoded[j].name
           IN \/ IsArrayIndex(a) /\ ~IsArrayIndex(b)
              \/ IsArrayIndex(a) /\ IsArrayIndex(b) /\ a # b /\ IndexLeq(a, b)
              \/ /\ ~IsArrayIndex(a)
                 /\ ~IsArrayIndex(b)
                 /\ KeyIndex(searchArg.entries, a) < KeyIndex(searchArg.entries, b)

C12_Witness ==
  /\ BuiltFromParams
  /\ searchArg.entries = <<Prop(<<"o", "r", "d", "e", "r">>, JsStr(<<"i", "d", ".", "d", "e", "s", "c">>)), Prop(<<"2">>, JsNum(10))>>
  /\ queryOut.text = <<"?", "2", "=", "1", "0", "&", "o", "r", "d", "e", "r", "=", "i", "d", ".", "d", "e", "s", "c">>


\* the resource path of the entity a client function belongs to
EntityPathOf(fn) ==
  CASE fn \in {"listInterviews", "createInterview", "updateInterview", "deleteInterview"} ->
         <<"/", "i", "n", "t", "e", "r", "v", "i", "e", "w">>
    [] fn \in {"listQuestions", "createQuestion", "updateQuestion", "deleteQuestion"} ->
         <<"/", "q", "u", "e", "s", "t", "i", "o", "n">>
    [] fn \in {"listApplicants", "createApplicant", "updateApplicant", "deleteApplicant"} ->
         <<"/", "a", "p", "p", "l", "i", "c", "a", "n", "t">>
    [] fn \in {"listApplicantAnswers", "createApplicantAnswer", "updateApplicantAnswer",
               "deleteApplicantAnswer"} ->
         <<"/", "a", "p", "p", "l", "i", "c", "a", "n", "t", "_", "a", "n", "s", "w", "e", "r">>

\* C13: each list, create, update and delete function calls apiRequest on its own
\* entity's path: list with no method (a GET) and the caller's filter as search,
\* create with POST, the given record as body and no search, update with PATCH,
\* search id = eq.<id> and the patch as body, delete with DELETE, search
\* id = eq.<id> and no body; the URL fetched is the base address, that path and
\* the query of that search.
C13_ClientCalls ==
  (pc # "idle" /\ call.fn \in ListFns \cup CreateFns \cup UpdateFns \cup DeleteFns) =>
    /\ call.path = EntityPathOf(call.fn)
    /\ call.fn \in ListFns =>
         /\ call.init = [method |-> "undefined", search |-> call.arg, body |-> Undefined]
         /\ Sent.method = "GET"
         /\ Sent.url = API_BASE \o EntityPathOf(call.fn) \o buildQuery(call.arg)
         /\ Sent.body = Undefined
    /\ call.fn \in CreateFns =>
         /\ call.init = [method |-> "POST", search |-> Undefined, body |-> call.arg]
         /\ Sent.method = "POST"
         /\ Sent.url = API_BASE \o EntityPathOf(call.fn)
    /\ call.fn \in UpdateFns =>
         /\ call.init = [ method |-> "PATCH",
                          search |-> JsObj(<<Prop(<<"i", "d">>, JsStr(<<"e", "q", ".">> \o IntToText(call.id)))>>),
                          body |-> call.arg ]
         /\ Sent.method = "PATCH"
         /\ Sent.url = API_BASE \o EntityPathOf(call.fn) \o <<"?", "i", "d", "=", "e", "q", ".">> \o IntToText(call.id)
    /\ call.fn \in DeleteFns =>
         /\ call.init = [ method |-> "DELETE",
                          search |-> JsObj(<<Prop(<<"i", "d">>, JsStr(<<"e", "q", ".">> \o IntToText(call.id)))>>),
                          body |-> Undefined ]
         /\ Sent.method = "DELETE"
         /\ Sent.url = API_BASE \o EntityPathOf(call.fn) \o <<"?", "i", "d", "=", "e", "q", ".">> \o IntToText(call.id)
         /\ Sent.body = Undefined

C13_Witness ==
  /\ pc = "inflight"
  /\ call.fn = "deleteApplicantAnswer"
  /\ call.id = 2
  /\ Sent.method = "DELETE"
  /\ Sent.url = <<"h", "t", "t", "p", "s", ":", "/", "/", "c", "o", "m", "p", "2", "1", "4", "0", "a", "2", ".", "u", "q", "c", "l", "o", "u", "d", ".", "n", "e", "t", "/", "a", "p", "i", "/", "a", "p", "p", "l", "i", "c", "a", "n", "t", "_", "a", "n", "s", "w", "e", "r", "?", "i", "d", "=", "e", "q", ".", "2">>
  /\ Sent.body = Undefined


\* the flights whose call has been made
Started == {f \in Flights : flights[f].pc # "idle"}

\* the request and the reply of the fetch a flight made
OwnFetch(f) == network[flights[f].fetchIx]

\* what apiRequest makes of a reply
OutcomeOfReply(reply) ==
  IF reply.kind = "http" THEN ApiResponse(reply).outcome ELSE Rejected(reply.error)

\* C14: N calls made side by side issue N fetch calls, one each, identical calls
\* included (nothing is batched, coalesced or served from a cache); a call stays
\* pending exactly as long as its own fetch has no reply, and under every
\* interleaving of the replies it settles to what its own reply determines.
C14_IndependentCalls ==
  /\ Len(network) = Cardinality(Started)
  /\ \A f \in Started :
       /\ flights[f].fetchIx \in 1..Len(network)
       /\ OwnFetch(f).request = FetchCall(flights[f].call.path, flights[f].call.init)
       /\ \A g \in Started : g # f => flights[g].fetchIx # flights[f].fetchIx
       /\ flights[f].pc = "inflight" <=> OwnFetch(f).reply = NoResponse
       /\ flights[f].pc = "inflight" => flights[f].outcome = Pending
       /\ flights[f].pc = "settled" =>
            /\ flights[f].apiOutcome = OutcomeOfReply(OwnFetch(f).reply)
            /\ flights[f].outcome =
                 ClientOutcome(flights[f].call.fn, OutcomeOfReply(OwnFetch(f).reply))

\* two identical list calls, the second answered first, with different replies
C14_Witness ==
  /\ flights[1].call = flights[2].call
  /\ flights[1].call.fn = "listInterviews"
  /\ Len(network) = 2
  /\ network[1].request = network[2].request
  /\ flights[1].pc = "inflight"
  /\ flights[2].pc = "settled"
  /\ OwnFetch(2).reply.kind = "http"
  /\ OwnFetch(2).reply.text = T_rowsTwo
  /\ flights[2].outcome.kind = "resolved"

InterviewStatuses == { <<"D", "r", "a", "f", "t">>, <<"P", "u", "b", "l", "i", "s", "h", "e", "d">>, <<"A", "r", "c", "h", "i", "v", "e", "d">> }

\* the other fields of the form are filled and its status is a non-empty text
UnsupportedStatus(state) ==
  /\ Trim(Get(state, <<"t", "i", "t", "l", "e">>).s) # <<>>
  /\ Trim(Get(state, <<"j", "o", "b", "_", "r", "o", "l", "e">>).s) # <<>>
  /\ Trim(Get(state, <<"d", "e", "s", "c", "r", "i", "p", "t", "i", "o", "n">>).s) # <<>>
  /\ Trim(Get(state, <<"s", "t", "a", "t", "u", "s">>).s) # <<>>
  /\ Get(state, <<"s", "t", "a", "t", "u", "s">>).s \notin InterviewStatuses

\* the create and update calls the page has issued
Mutations ==
  { tasks[t].log[1] : t \in { u \in Tasks : tasks[u] # NoTask /\ tasks[u].kind = "submit" } }

\* C16: validateInterviewForm rejects a filled form whose status is a non-empty
\* text outside {Draft, Published, Archived} with the error
\* 'Status must be Draft, Published, or Archived.' on status, and no create or
\* update the page issues carries a status outside the set.
C16_StatusClosedSet ==
  /\ ui.mounted /\ UnsupportedStatus(ui.formState) =>
       \E k \in 1..Len(validateInterviewForm(ui.formState)) :
          validateInterviewForm(ui.formState)[k] =
            Prop(<<"s", "t", "a", "t", "u", "s">>, <<"S", "t", "a", "t", "u", "s", " ", "m", "u", "s", "t", " ", "b", "e", " ", "D", "r", "a", "f", "t", ",", " ", "P", "u", "b", "l", "i", "s", "h", "e", "d", ",", " ", "o", "r", " ", "A", "r", "c", "h", "i", "v", "e", "d", ".">>)
  /\ \A m \in Mutations : Get(m.arg, <<"s", "t", "a", "t", "u", "s">>).s \in InterviewStatuses


\* the gateway has answered the request it handles
Terminal == gw.state \in {"Responding", "ErrorResponding"}

\* the request the gateway handles has been in a state
Visited(state) == gw.state # "Idle" /\ \E i \in 1..Len(gw.trail) : gw.trail[i] = state

\* the declared username of the request is not the identity of its credential
Mismatch == gw.state # "Idle" /\ Get(gw.request, <<"u", "s", "e", "r", "n", "a", "m", "e">>) # JsStr(gw.subject)

\* GENAI_API_KEY is unset or empty
CredentialAbsent == gw.state # "Idle" /\ (gw.key = Undefined \/ gw.key = JsStr(<<>>))

NoLiveSummary == <<"n", "o", " ", "l", "i", "v", "e", " ", "s", "u", "m", "m", "a", "r", "y", " ", "c", "o", "u", "l", "d", " ", "b", "e", " ", "p", "r", "o", "d", "u", "c", "e", "d">>

\* C17: without a live-generation credential (unset or empty), every fully valid
\* request is answered with HTTP 200 and a summary with isPlaceholder true, a
\* non-empty overview and recommendation that state that no live summary could be
\* produced, and a valid ISO-8601 UTC generatedAt; the generation branch is chosen
\* by the presence of the credential alone.
C17_Placeholder ==
  gw.state # "Idle" =>
    /\ (Terminal /\ gw.broken = {} /\ ~Mismatch /\ CredentialAbsent) =>
         /\ gw.response.kind = "summary"
         /\ gw.response.status = 200
         /\ gw.response.summary.isPlaceholder
         /\ gw.response.summary.overview # <<>>
         /\ gw.response.summary.recommendation # <<>>
         /\ Includes(gw.response.summary.overview, NoLiveSummary)
         /\ Includes(gw.response.summary.recommendation, NoLiveSummary)
         /\ IsIsoUtc(gw.response.summary.generatedAt)
    /\ Visited("PlaceholderGeneration") => CredentialAbsent
    /\ Visited("LiveGeneration") => ~CredentialAbsent

C17_Witness ==
  /\ gw.state = "Responding"
  /\ gw.key = JsStr(<<>>)
  /\ gw.broken = {}
  /\ ~Mismatch
  /\ gw.trail = <<"Validating", "Valid", "PlaceholderGeneration", "Responding">>
  /\ gw.response.status = 200
  /\ gw.response.summary.isPlaceholder
  /\ gw.response.summary.generatedAt = SyntheticTimestamp

\* C18: every request that violates the schema is answered with HTTP 400 and code
\* VALIDATION_ERROR, and the details list has one entry per violation, each with
\* the path of the offending field and an explanation.
C18_ValidationError ==
  (Terminal /\ gw.broken # {}) =>
    /\ gw.response.kind = "error"
    /\ gw.response.status = 400
    /\ gw.response.code = "VALIDATION_ERROR"
    /\ Len(gw.response.details) = Cardinality(gw.broken)
    /\ { gw.response.details[i].path : i \in 1..Len(gw.response.details) }
         = { PathOf(b) : b \in gw.broken }
    /\ \A i \in 1..Len(gw.response.details) : gw.response.details[i].message # <<>>

C18_Witness ==
  /\ gw.state = "ErrorResponding"
  /\ gw.broken = {"noApplicantId", "negativeDuration"}
  /\ gw.response.status = 400
  /\ Len(gw.response.details) = 2
  /\ gw.response.details[1].path = <<JsStr(<<"a", "p", "p", "l", "i", "c", "a", "n", "t", "I", "d">>)>>
  /\ gw.response.details[2].path = <<JsStr(<<"a", "n", "s", "w", "e", "r", "s">>), JsNum(1), JsStr(<<"d", "u", "r", "a", "t", "i", "o", "n", "S", "e", "c", "o", "n", "d", "s">>)>>

\* the request is answered with HTTP 403 and code FORBIDDEN
Forbidden ==
  /\ gw.response.kind = "error"
  /\ gw.response.status = 403
  /\ gw.response.code = "FORBIDDEN"

\* no generation step has been reached
NoGeneration == ~Visited("LiveGeneration") /\ ~Visited("PlaceholderGeneration")

\* C19 as stated: every request whose declared username differs from the identity
\* of the credential is answered with HTTP 403 FORBIDDEN, and no generation step
\* is reached.
C19_ForbiddenAlways ==
  Mismatch => NoGeneration /\ (Terminal => Forbidden)

\* C19: every schema-valid request whose declared username differs from the
\* identity of the credential is answered with HTTP 403 FORBIDDEN; no request
\* with a differing username reaches a generation step.
C19_ForbiddenWhenValid ==
  Mismatch => NoGeneration /\ (Terminal /\ gw.broken = {} => Forbidden)

C19_Witness ==
  /\ gw.state = "ErrorResponding"
  /\ Mismatch
  /\ gw.broken = {}
  /\ gw.key = JsStr(<<"s", "k", "-", "l", "i", "v", "e", "-", "1">>)
  /\ gw.trail = <<"Validating", "Valid", "ErrorResponding">>
  /\ gw.response.status = 403

\* the transitions of the state machine as listed
ClaimedSteps ==
  { <<"Validating", "Valid">>, <<"Validating", "Invalid">>,
    <<"Valid", "LiveGeneration">>, <<"Valid", "PlaceholderGeneration">>,
    <<"LiveGeneration", "Responding">>, <<"PlaceholderGeneration", "Responding">>,
    <<"Invalid", "ErrorResponding">> }

\* with the error responses of the identity check and of a failed generation
GatewaySteps ==
  ClaimedSteps \cup { <<"Valid", "ErrorResponding">>, <<"LiveGeneration", "ErrorResponding">> }

\* the request the gateway handles has moved along the given transitions only,
\* from Validating; a terminal state is the last state; an Invalid request has
\* entered no generation state; a response through Responding has a strengths
\* entry and a non-empty overview and recommendation
Follows(steps) ==
  gw.state # "Idle" =>
    /\ gw.trail[1] = "Validating"
    /\ gw.trail[Len(gw.trail)] = gw.state
    /\ \A i \in 1..(Len(gw.trail) - 1) :
          /\ <<gw.trail[i], gw.trail[i + 1]>> \in steps
          /\ gw.trail[i] \notin {"Responding", "ErrorResponding"}
    /\ Visited("Invalid") => NoGeneration
    /\ gw.state = "Responding" =>
          /\ gw.response.kind = "summary"
          /\ Len(gw.response.summary.strengths) >= 1
          /\ \A i \in 1..Len(gw.response.summary.strengths) : gw.response.summary.strengths[i] # <<>>
          /\ gw.response.summary.overview # <<>>
          /\ gw.response.summary.recommendation # <<>>
    /\ gw.state = "ErrorResponding" => gw.response.kind = "error"

C28_CountNeverRejectsOnSuccess ==
  (pc = "settled" /\ call.fn \in CountFns /\ response.kind = "http" /\ ResponseOk(response)) =>
    /\ outcome.kind = "resolved"
    /\ outcome.value.t = "number"
    /\ (response.text \in {<<>>, <<"[", "]">>, <<"[", "{", "}", "]">>, T_countAbc} \/ ~jsonParsed) =>
          outcome.value = JsNum(0)


\* the handlers that have run fetchInterviewsWithCounts to its end
Listed == { t \in Tasks : tasks[t] # NoTask /\ tasks[t].stage = "done"
                           /\ tasks[t].log[ListIx(tasks[t])].state = "resolved" }

\* the value of the call of fn with argument arg in the log of a task
ValueOf(task, fn, arg) ==
  LET i == CHOOSE i \in 1..Len(task.log) : task.log[i].fn = fn /\ task.log[i].arg = arg
  IN task.log[i].value

\* the count calls in the log of a task
CountCallsOf(task) == { i \in 1..Len(task.log) : task.log[i].fn \in CountFns }

\* C22: for a list response that is an array of n interviews,
\* fetchInterviewsWithCounts resolves to n entries in the same order, entry i
\* being interview i extended with the questionCount and applicantCount that the
\* count helpers returned for that interview's id, whatever the order in which
\* the count calls completed; for a list response that is not an array it
\* rejects with an 'expected an array response' error and issues no count call.
C22_ListWithCounts ==
  \A t \in Tasks : tasks[t] # NoTask =>
    LET task == tasks[t]
        list == task.log[ListIx(task)]
    IN /\ (t \in Listed /\ list.value.t = "array" /\ task.result.kind = "resolved") =>
            /\ Len(task.result.value.items) = Len(list.value.items)
            /\ \A j \in 1..Len(list.value.items) :
                  LET interview == list.value.items[j]
                      entry == task.result.value.items[j]
                  IN /\ \A p \in 1..Len(interview.entries) :
                           Get(entry, interview.entries[p].k) = interview.entries[p].v
                     /\ Get(entry, <<"q", "u", "e", "s", "t", "i", "o", "n", "C", "o", "u", "n", "t">>) =
                          ValueOf(task, "countQuestionsForInterview", Get(interview, <<"i", "d">>))
                     /\ Get(entry, <<"a", "p", "p", "l", "i", "c", "a", "n", "t", "C", "o", "u", "n", "t">>) =
                          ValueOf(task, "countApplicantsForInterview", Get(interview, <<"i", "d">>))
                     /\ Len(entry.entries) = Len(interview.entries) + 2
       /\ (t \in Listed /\ list.value.t = "array"
             /\ \A i \in CountCallsOf(task) : task.log[i].state = "resolved") =>
            task.result.kind = "resolved"
       /\ (t \in Listed /\ list.value.t # "array") =>
            /\ task.result.kind = "rejected"
            /\ Includes(task.result.error.message, <<"e", "x", "p", "e", "c", "t", "e", "d", " ", "a", "n", " ", "a", "r", "r", "a", "y", " ", "r", "e", "s", "p", "o", "n", "s", "e">>)
       /\ (CountCallsOf(task) # {}) =>
            /\ Len(task.log) >= ListIx(task)
            /\ task.log[ListIx(task)].state = "resolved"
            /\ task.log[ListIx(task)].value.t = "array"
            /\ Cardinality(CountCallsOf(task)) = 2 * Len(task.log[ListIx(task)].value.items)

C22_Witness ==
  /\ tasks[1] # NoTask
  /\ tasks[1].stage = "done"
  /\ tasks[1].result.kind = "resolved"
  /\ Len(tasks[1].result.value.items) = 2
  /\ Get(tasks[1].result.value.items[1], <<"i", "d">>) = JsNum(2)
  /\ Get(tasks[1].result.value.items[1], <<"q", "u", "e", "s", "t", "i", "o", "n", "C", "o", "u", "n", "t">>) = JsNum(3)
  /\ Get(tasks[1].result.value.items[1], <<"a", "p", "p", "l", "i", "c", "a", "n", "t", "C", "o", "u", "n", "t">>) = JsNum(0)
  /\ Get(tasks[1].result.value.items[2], <<"i", "d">>) = JsNum(1)
  /\ Get(tasks[1].result.value.items[2], <<"q", "u", "e", "s", "t", "i", "o", "n", "C", "o", "u", "n", "t">>) = JsNum(2)
  /\ Get(tasks[1].result.value.items[2], <<"a", "p", "p", "l", "i", "c", "a", "n", "t", "C", "o", "u", "n", "t">>) = JsNum(1)



\* the client functions that change a record
MutationFns == { "createInterview", "updateInterview", "deleteInterview" }

\* the runs of saveInterviewAndReload, called directly or by handleSubmit
Saves == { t \in Tasks : tasks[t] # NoTask /\ tasks[t].kind \in {"save", "submit"} }

\* C23: saveInterviewAndReload issues exactly one mutation, before any list
\* call: updateInterview(editingId, formState) when editingId is not null,
\* createInterview(formState) when it is null, never both; the list is requested
\* with offset = page * pageSize (and limit = pageSize, the order given) only
\* after the mutation has succeeded; when the mutation fails no list or count
\* call is made and the error is the one the function rejects with.
C23_SaveThenReload ==
  \A t \in Saves :
    LET a == tasks[t].args
        log == tasks[t].log
    IN /\ Len(log) >= 1
       /\ log[1].fn = (IF a.editingId # JsNull THEN "updateInterview" ELSE "createInterview")
       /\ a.editingId # JsNull => log[1].id = a.editingId.n
       /\ log[1].arg = a.formState
       /\ \A i \in 2..Len(log) : log[i].fn \notin MutationFns
       /\ Len(log) >= 2 =>
            /\ log[1].state = "resolved"
            /\ log[2].fn = "listInterviews"
            /\ log[2].arg = ListParams(a.order, a.pageSize, a.page * a.pageSize)
       /\ log[1].state = "rejected" =>
            /\ Len(log) = 1
            /\ tasks[t].result.kind = "rejected"
            /\ JsStr(tasks[t].result.error.message) = log[1].value

\* an update of record 2 succeeded and the third page of ten is being listed
C23_Witness ==
  \E t \in Saves :
    /\ tasks[t].kind = "save"
    /\ tasks[t].args.editingId = JsNum(2)
    /\ Len(tasks[t].log) >= 2
    /\ tasks[t].log[1].fn = "updateInterview" /\ tasks[t].log[1].id = 2
    /\ tasks[t].log[1].state = "resolved"
    /\ Get(tasks[t].log[2].arg, <<"o", "f", "f", "s", "e", "t">>) = JsNum(20)


\* the creates, updates and deletes of the Interviews page that have not settled:
\* the handler runs still going (their reload included)
Operations ==
  { t \in Tasks : tasks[t] # NoTask /\ tasks[t].kind \in {"submit", "delete"}
                                     /\ tasks[t].stage # "done" }

\* C30: on the Interviews page, while a create, update or delete started from
\* the page is in flight, submitting is true and no second create, update or
\* delete is issued; when none is in flight submitting is false.
C30_OneOperationAtATime ==
  ui.mounted =>
    /\ Cardinality(Operations) <= 1
    /\ ui.submitting <=> Operations # {}


\* the places of a text that hold no white space
Inked(text) == { i \in 1..Len(text) : text[i] \notin WhiteSpace }

\* a text from its first to its last character that is no white space
Stripped(text) ==
  IF Inked(text) = {} THEN <<>>
  ELSE SubSeq(text, CHOOSE i \in Inked(text) : \A j \in Inked(text) : i <= j,
                    CHOOSE i \in Inked(text) : \A j \in Inked(text) : i >= j)

\* C24: buildQuestionSearchParams always returns order, limit = pageSize and
\* offset = page * pageSize; interview_id = 'eq.<id>' is present exactly when
\* interviewId is not null, and question = 'ilike.*<text>*' exactly when the
\* search text holds a character that is no white space, <text> being the
\* trimmed text; nothing else is returned.
C24_SearchParams ==
  built.built =>
    LET o == built.options
        s == built.search
    IN /\ Get(s, <<"o", "r", "d", "e", "r">>) = JsStr(o.order)
       /\ Get(s, <<"l", "i", "m", "i", "t">>) = JsNum(o.pageSize)
       /\ Get(s, <<"o", "f", "f", "s", "e", "t">>) = JsNum(o.page * o.pageSize)
       /\ HasKey(s.entries, <<"i", "n", "t", "e", "r", "v", "i", "e", "w", "_", "i", "d">>) <=> o.interviewId # JsNull
       /\ o.interviewId # JsNull =>
            Get(s, <<"i", "n", "t", "e", "r", "v", "i", "e", "w", "_", "i", "d">>) = JsStr(<<"e", "q", ".">> \o IntToText(o.interviewId.n))
       /\ HasKey(s.entries, <<"q", "u", "e", "s", "t", "i", "o", "n">>) <=> Inked(o.searchText) # {}
       /\ Inked(o.searchText) # {} =>
            Get(s, <<"q", "u", "e", "s", "t", "i", "o", "n">>) = JsStr(<<"i", "l", "i", "k", "e", ".", "*">> \o Stripped(o.searchText) \o <<"*">>)
       /\ \A i \in 1..Len(s.entries) :
            s.entries[i].k \in { <<"o", "r", "d", "e", "r">>, <<"l", "i", "m", "i", "t">>, <<"o", "f", "f", "s", "e", "t">>, <<"i", "n", "t", "e", "r", "v", "i", "e", "w", "_", "i", "d">>, <<"q", "u", "e", "s", "t", "i", "o", "n">> }

\* a padded search text and the interview 0: both filters are present, the text trimmed
C24_Witness ==
  /\ built.built
  /\ built.options.searchText = <<" ", "l", "o", "o", "p", " ">>
  /\ built.options.interviewId = JsNum(0)
  /\ built.options.page = 2
  /\ Get(built.search, <<"q", "u", "e", "s", "t", "i", "o", "n">>) = JsStr(<<"i", "l", "i", "k", "e", ".", "*", "l", "o", "o", "p", "*">>)
  /\ Get(built.search, <<"i", "n", "t", "e", "r", "v", "i", "e", "w", "_", "i", "d">>) = JsStr(<<"e", "q", ".", "0">>)
  /\ Get(built.search, <<"o", "f", "f", "s", "e", "t">>) = JsNum(2 * built.options.pageSize)


\* what the list is filtered, ordered and cut by, the page apart
Filters(u) == <<u.selectedInterviewId, u.order, u.pageSize, u.searchText>>

\* a step of the mounted Questions page, as C27 allows it
PagingStep ==
  /\ Filters(qui') # Filters(qui) =>
       /\ qui'.page = 0
       /\ Len(requests') > Len(requests)
       /\ requests'[Len(requests')].fn = "listQuestions"
       /\ Get(requests'[Len(requests')].arg, <<"o", "f", "f", "s", "e", "t">>) = JsNum(0)
       /\ Get(requests'[Len(requests')].arg, <<"l", "i", "m", "i", "t">>) = JsNum(qui'.pageSize)
  /\ qui'.page \in { qui.page, qui.page + 1, qui.page - 1, 0 }
  /\ qui'.page = qui.page + 1 => Len(qui.questions) = qui.pageSize
  /\ qui'.page >= 0

\* C27: on the Questions page every change of the interview filter, the order,
\* the page size or the submitted search text sets page to 0 and the list
\* request it causes carries offset 0; page grows by one only when the list
\* shown holds exactly pageSize rows, otherwise it stays, falls by one or returns
\* to 0, and it is never negative.
C27_Paging ==
  [][ (qui.mounted /\ qui'.mounted => PagingStep) /\ (~qui.mounted /\ qui'.mounted => qui'.page = 0) ]_vars

\* the second page was listed, and after it a first page of ten
C27_Witness ==
  /\ qui.mounted
  /\ qui.page = 0
  /\ qui.pageSize = 10
  /\ \E i \in 1..Len(requests), j \in 1..Len(requests) :
       /\ i < j
       /\ requests[i].fn = "listQuestions" /\ Get(requests[i].arg, <<"o", "f", "f", "s", "e", "t">>) = JsNum(5)
       /\ requests[j].fn = "listQuestions" /\ Get(requests[j].arg, <<"o", "f", "f", "s", "e", "t">>) = JsNum(0)
       /\ Get(requests[j].arg, <<"l", "i", "m", "i", "t">>) = JsNum(10)

\* the list requests of the Questions page, by their place in the order of issue
ListRequests == { i \in 1..Len(requests) : requests[i].fn = "listQuestions" }

\* the list request issued last
LastListed == CHOOSE i \in ListRequests : \A j \in ListRequests : j <= i

\* C29: on the Questions page, once every list request has settled, the
\* questions displayed are the rows the request issued last resolved to.
C29_LastRequestWins ==
  ( /\ qui.mounted
    /\ ListRequests # {}
    /\ \A i \in ListRequests : requests[i].state # "pending"
    /\ requests[LastListed].state = "resolved"
    /\ requests[LastListed].value.t = "array" )
  => qui.questions = requests[LastListed].value.items


\* a step of the mounted Interviews page: a create or update is started only
\* with a form the validator accepts, and errors newly shown are those of the
\* validator, with nothing started and submitting false before and after
InterviewsSubmitStep ==
  /\ (\E t \in Tasks : tasks[t] = NoTask /\ tasks'[t] # NoTask /\ tasks'[t].kind = "submit")
       => validateInterviewForm(ui.formState) = <<>>
  /\ (ui'.formErrors # <<>> /\ ui'.formErrors # ui.formErrors) =>
       /\ ui'.formErrors = validateInterviewForm(ui.formState)
       /\ ui'.formState = ui.formState
       /\ ~ui.submitting /\ ~ui'.submitting
       /\ tasks' = tasks

\* the same for a step of the mounted Questions page
QuestionsSubmitStep ==
  /\ (\E i \in (Len(requests) + 1)..Len(requests') :
         requests'[i].fn \in {"createQuestion", "updateQuestion"})
       => validateQuestionForm(qui.formState) = <<>>
  /\ (qui'.formErrors # <<>> /\ qui'.formErrors # qui.formErrors) =>
       /\ qui'.formErrors = validateQuestionForm(qui.formState)
       /\ qui'.formState = qui.formState
       /\ ~qui.submitting /\ ~qui'.submitting
       /\ requests' = requests

\* C25: on the Questions page and on the Interviews page, submitting a form
\* for which the validator returns an error issues no create or update; the
\* errors of the validator are set and submitting stays false.
C25_InvalidFormBlocked ==
  [][ /\ (ui.mounted /\ ui'.mounted => InterviewsSubmitStep)
      /\ (qui.mounted /\ qui'.mounted => QuestionsSubmitStep) ]_vars

\* a question of white space with no interview chosen was submitted: both
\* errors are shown, nothing was created
C25_Witness ==
  /\ qui.mounted
  /\ Get(qui.formState, <<"q", "u", "e", "s", "t", "i", "o", "n">>) = JsStr(<<" ">>)
  /\ Get(qui.formState, <<"i", "n", "t", "e", "r", "v", "i", "e", "w", "_", "i", "d">>) = JsStr(<<>>)
  /\ qui.formErrors = << Prop(<<"q", "u", "e", "s", "t", "i", "o", "n">>, <<"Q", "u", "e", "s", "t", "i", "o", "n", " ", "p", "r", "o", "m", "p", "t", " ", "i", "s", " ", "r", "e", "q", "u", "i", "r", "e", "d", ".">>),
                         Prop(<<"i", "n", "t", "e", "r", "v", "i", "e", "w", "_", "i", "d">>, <<"S", "e", "l", "e", "c", "t", " ", "a", "n", " ", "i", "n", "t", "e", "r", "v", "i", "e", "w", ".">>) >>
  /\ ~qui.submitting
  /\ \A i \in 1..Len(requests) : requests[i].fn \in {"listInterviews", "listQuestions"}


\* the delete runs of the Interviews page whose delete call is in the state given
DeleteRuns(ts, state) ==
  { t \in Tasks : ts[t] # NoTask /\ ts[t].kind = "delete" /\ ts[t].log[1].state = state }

\* a step of the mounted Interviews page, as C26 allows it
InterviewsDeleteStep ==
  /\ \A t \in Tasks :
       (tasks[t] = NoTask /\ tasks'[t] # NoTask /\ tasks'[t].kind = "delete") =>
         /\ ui.prompt # JsNull
         /\ tasks'[t].log = <<PageCall("deleteInterview", ui.prompt.n, Undefined)>>
  /\ (ui.prompt # JsNull /\ ui'.prompt = JsNull /\ DeleteRuns(tasks', "pending") = DeleteRuns(tasks, "pending")) =>
       /\ ui' = [ui EXCEPT !.prompt = JsNull]
       /\ tasks' = tasks
  /\ \A t \in DeleteRuns(tasks, "pending") \cap DeleteRuns(tasks', "resolved") :
       /\ Len(tasks'[t].log) = 2
       /\ tasks'[t].log[2].fn = "listInterviews"
       /\ tasks'[t].log[2].state = "pending"
       /\ ui.editingId = JsNum(tasks[t].log[1].id) =>
            ui'.editingId = JsNull /\ ui'.formState = EMPTY_FORM
  /\ \A t \in DeleteRuns(tasks, "pending") \cap DeleteRuns(tasks', "rejected") :
       /\ Len(tasks'[t].log) = 1
       /\ tasks'[t].stage = "done"
       /\ ui'.error = tasks'[t].log[1].value
       /\ ui'.error.t = "string"

\* the delete calls of the Questions page that are in the state given
DeleteCalls(reqs, state) ==
  { i \in 1..Len(reqs) : reqs[i].fn = "deleteQuestion" /\ reqs[i].state = state }

\* a step of the mounted Questions page, as C26 allows it
QuestionsDeleteStep ==
  /\ \A i \in (Len(requests) + 1)..Len(requests') :
       requests'[i].fn = "deleteQuestion" =>
         /\ qui.prompt # JsNull
         /\ requests'[i].id = qui.prompt.n
  /\ (qui.prompt # JsNull /\ qui'.prompt = JsNull /\ DeleteCalls(requests', "pending") = DeleteCalls(requests, "pending")) =>
       /\ qui' = [qui EXCEPT !.prompt = JsNull]
       /\ requests' = requests
  /\ \A i \in DeleteCalls(requests, "pending") \cap DeleteCalls(requests', "resolved") :
       /\ Len(requests') = Len(requests) + 1
       /\ requests'[Len(requests')].fn = "listQuestions"
       /\ requests'[Len(requests')].state = "pending"
       /\ qui.editingId = JsNum(requests[i].id) =>
            qui'.editingId = JsNull /\ Get(qui'.formState, <<"q", "u", "e", "s", "t", "i", "o", "n">>) = JsStr(<<>>)
  /\ \A i \in DeleteCalls(requests, "pending") \cap DeleteCalls(requests', "rejected") :
       /\ Len(requests') = Len(requests)
       /\ qui'.actionError = requests'[i].value
       /\ qui'.actionError.t = "string"

\* C26: on the Questions page and on the Interviews page a delete request is
\* issued only from the confirmation prompt, for the record it asks about; a
\* prompt closed without a request changes nothing; when the delete succeeds
\* the list is requested next and, if the deleted record is the one being
\* edited, the form is reset; when it fails no list is requested and the error
\* is shown.
C26_DeleteFlow ==
  [][ /\ (ui.mounted /\ ui'.mounted => InterviewsDeleteStep)
      /\ (qui.mounted /\ qui'.mounted => QuestionsDeleteStep) ]_vars

====
